---- MODULE Spec2Model ----
(***************************************************************************)
(* Model of the RADCOM instrument drivers: the VISA session wrapper        *)
(* (instruments/base/pyvisa_base.py), the synchronized command layer       *)
(* (instruments/base/instrument.py, visa_instrument.py), the capability    *)
(* base classes (multimeter, oscilloscope, network analyzer, power supply, *)
(* signal generator) and the concrete drivers HP34401AD, Fluke45, RTO6,    *)
(* MS464xB, N6700B and E8267D.                                             *)
(*                                                                         *)
(* Seven specifications share the module:                                   *)
(*   Spec      - one driver object; a step makes one public call and       *)
(*               records the transport events of that call, the next step  *)
(*               clears the record before another call is made.            *)
(*   SpecSync  - a caller issuing write() against an instrument that       *)
(*               executes commands asynchronously.                         *)
(*   SpecQuery - two callers issuing query() on one shared session.        *)
(*   SpecLife  - construction and close() of a parent object and the use   *)
(*               of its sub-objects.                                       *)
(*   SpecDac   - one call of the serial DAC module (dac.py).               *)
(*   SpecAck   - one caller using write() and query() of a Fluke45, and    *)
(*               the output buffer of the instrument.                      *)
(*   SpecScope - property assignments and reads on an RTO6 and its         *)
(*               sub-objects, and the settings the instrument holds.       *)
(***************************************************************************)
EXTENDS Integers, Sequences, FiniteSets, TLC

VARIABLES
    driver,                \* class of the object under use
    _function,             \* HP34401AD/Fluke45 attribute self._function
    _trigger_measurement,  \* Multimeter attribute self._trigger_measurement
    echo,                  \* PyVisaBase attribute self.echo
    trigger_src,           \* most recent value assigned to trigger_source
    number,                \* Channel attribute self.number (0 for a parent)
    last,                  \* the call under observation: [op, str, num]
    log,                   \* transport events issued by that call
    calls,                 \* trigger()/read_val() calls made by that call
    raised,                \* exception that call ended with, or NoError
    prev,                  \* multimeter: the setup() just before, if any
    scope_source,          \* RTO6: trigger source the instrument has selected
    layer,                 \* SpecSync: which write() implementation is used
    wpc,                   \* SpecSync: position of the caller inside write()
    inq,                   \* SpecSync: commands received, not yet executed
    running,               \* SpecSync: command the instrument is executing
    outq,                  \* SpecSync: instrument output buffer
    sent,                  \* SpecSync: number of write() calls started
    completed,             \* SpecSync: caller commands executed to the end
    qdrv,                  \* SpecQuery: driver class of the shared session
    qpc,                   \* SpecQuery: per caller, position inside query()
    qleft,                 \* SpecQuery: per caller, reads still to perform
    qbuf,                  \* SpecQuery: output buffer of the shared session
    qval,                  \* SpecQuery: per caller, value query() returns
    qcmd,                  \* SpecQuery: per caller, id of the command sent
    qover,                 \* SpecQuery: per caller, query overlapped another
    qn,                    \* SpecQuery: number of query() calls started
    life,                  \* SpecLife: new, failed, constructed or closed
    resource,              \* SpecLife: attribute self.resource of the parent
    session,               \* SpecLife: state of the pyvisa resource
    subs,                  \* SpecLife: the sub-objects in the parent's __dict__
    given,                 \* SpecLife: the arguments given to the constructor
    attrs,                 \* SpecLife: the attributes of the pyvisa resource
    dac_call,              \* SpecDac: the call under observation
    dac_pc,                \* SpecDac: pending before the call, returned after
    dac_ret,               \* SpecDac: value modbus_crc16 returned, or None
    dac_port,              \* SpecDac: frames handed to serial.Serial.write
    dac_reads,             \* SpecDac: number of reads of the serial port
    dac_err,               \* SpecDac: exception the call ended with
    abuf,                  \* SpecAck: output buffer of the Fluke 45
    aret,                  \* SpecAck: value the call returned, or None
    alast,                 \* SpecAck: the call just made: [op, cmd, id]
    an,                    \* SpecAck: number of calls made
    aerr,                  \* SpecAck: exception the call ended with
    sc_hist,               \* SpecScope: the calls made on the RTO6 and its sub-objects
    sc_store,              \* SpecScope: the settings the instrument holds
    sc_before,             \* SpecScope: the settings before the latest call
    sc_log,                \* SpecScope: transport events of the latest call
    sc_ret,                \* SpecScope: value the latest call returned, or None
    sc_err                 \* SpecScope: exception the latest call ended with

callVars == <<driver, _function, _trigger_measurement, echo, trigger_src,
              number, last, log, calls, raised, prev, scope_source>>

syncVars == <<layer, wpc, inq, running, outq, sent, completed>>

queryVars == <<qdrv, qpc, qleft, qbuf, qval, qcmd, qover, qn>>

lifeVars == <<life, resource, session, subs, given, attrs>>

dacVars == <<dac_call, dac_pc, dac_ret, dac_port, dac_reads, dac_err>>

ackVars == <<abuf, aret, alast, an, aerr>>

scopeVars == <<sc_hist, sc_store, sc_before, sc_log, sc_ret, sc_err>>

vars == <<callVars, syncVars, queryVars, lifeVars, dacVars, ackVars, scopeVars>>

(***************************************************************************)
(* Bounds of the model.                                                    *)
(***************************************************************************)
\* numeric arguments range over 0..MaxVal (and None)
MaxVal == 1

\* number of write() calls a SpecSync behaviour starts
MaxWrites == 4

\* number of query() calls a SpecQuery behaviour starts
MaxQueries == 4

(***************************************************************************)
(* Python values.                                                          *)
(***************************************************************************)
\* the default `None` of an optional numeric argument
None == -1

\* str(None), as it appears when None is formatted into an f-string
NoneStr == "None"

\* the default `None` of an optional string argument
StrNone == "<None>"

NoError == "none"

Vals == 0 .. MaxVal

OptVals == {None} \cup Vals

\* Python truthiness of an optional number: None and 0 are falsy
Truthy(v) == v /= None /\ v /= 0

\* f'{value}' of a number
NumStr(n) ==
    CASE n = None -> NoneStr
      [] n = 0 -> "0"
      [] n = 1 -> "1"
      [] n = 2 -> "2"
      [] n = 3 -> "3"
      [] n = 4 -> "4"
      [] n = 5 -> "5"
      [] n = 6 -> "6"
      [] n = 7 -> "7"
      [] n = 8 -> "8"
      [] n = 9 -> "9"
      [] n = 10 -> "10"
      [] OTHER -> "n"

(***************************************************************************)
(* Transport events.  A command string is kept as its three parts: the     *)
(* header text, the part interpolated into the header (function prefix or  *)
(* sub-unit number, "" when there is none) and the formatted argument.     *)
(* An event is what reaches the pyvisa resource: write(cmd), query(cmd)    *)
(* or read().                                                              *)
(***************************************************************************)
Cmd(name, idx, arg) == [name |-> name, idx |-> idx, arg |-> arg]

NoCmd == Cmd("", "", "")

WAI == Cmd("*WAI", "", "")

W(cmd) == [t |-> "write", cmd |-> cmd]

Q(cmd) == [t |-> "query", cmd |-> cmd]

R == [t |-> "read", cmd |-> NoCmd]

\* PyVisaBase.write: one resource.write
PyVisaWrite(cmd) == <<W(cmd)>>

\* PyVisaBase.query: one resource.query
PyVisaQuery(cmd) == <<Q(cmd)>>

\* Instrument.write / Channel.write: the command, then '*WAI'
InstrumentWrite(cmd) == PyVisaWrite(cmd) \o PyVisaWrite(WAI)

\* Fluke45.write: Instrument.write, then one read of the '=>' prompt
Fluke45Write(cmd) == InstrumentWrite(cmd) \o <<R>>

\* Fluke45.query without the read that takes the prompt
Fluke45QueryNoPromptRead(cmd) == PyVisaQuery(cmd)

\* Fluke45.query: PyVisaBase.query, then one read of the '=>' prompt
Fluke45Query(cmd) == PyVisaQuery(cmd) \o <<R>>

\* self.write(cmd) as dispatched on the class of self
DriverWrite(drv, cmd) ==
    IF drv = "Fluke45" THEN Fluke45Write(cmd) ELSE InstrumentWrite(cmd)

\* self.query(cmd) as dispatched on the class of self
DriverQuery(drv, cmd) ==
    IF drv = "Fluke45" THEN Fluke45Query(cmd) ELSE PyVisaQuery(cmd)

\* the commands written or queried by a log, completion commands left out
RECURSIVE SentCmds(_)
SentCmds(l) ==
    IF l = <<>> THEN <<>>
    ELSE IF Head(l).t \in {"write", "query"} /\ Head(l).cmd /= WAI
         THEN <<Head(l).cmd>> \o SentCmds(Tail(l))
         ELSE SentCmds(Tail(l))

\* number of resource.write events in a log
RECURSIVE NumWrites(_)
NumWrites(l) ==
    IF l = <<>> THEN 0
    ELSE (IF Head(l).t = "write" THEN 1 ELSE 0) + NumWrites(Tail(l))

(***************************************************************************)
(* Lookup tables of the multimeter drivers.                                *)
(***************************************************************************)
HP_RANGES ==
    [r \in {"100mV", "1V", "10V", "100V", "750V", "1kV", "100Ohm", "1kOhm",
            "10kOhm", "100kOhm", "1MOhm", "10MOhm", "100MOhm", "10mA",
            "100mA", "1A", "3A"} |->
        CASE r = "100mV" -> "0.1"  [] r = "1V" -> "1"
          [] r = "10V" -> "10"     [] r = "100V" -> "100"
          [] r = "750V" -> "750"   [] r = "1kV" -> "1000"
          [] r = "100Ohm" -> "100" [] r = "1kOhm" -> "1000"
          [] r = "10kOhm" -> "10000.0"     [] r = "100kOhm" -> "100000.0"
          [] r = "1MOhm" -> "1000000.0"    [] r = "10MOhm" -> "10000000.0"
          [] r = "100MOhm" -> "100000000.0"
          [] r = "10mA" -> "0.01"  [] r = "100mA" -> "0.1"
          [] r = "1A" -> "1"       [] r = "3A" -> "3"]

HP_RATES ==
    [r \in {"min", "slow", "medium", "fast", "max"} |->
        CASE r = "min" -> "0.02" [] r = "slow" -> "0.2" [] r = "medium" -> "1"
          [] r = "fast" -> "10"  [] r = "max" -> "100"]

\* HP34401AD.TRIGGER_TYPES; the trigger_source setter does not consult it
HP_TRIGGER_TYPES ==
    [s \in {"internal", "external", "bus"} |->
        CASE s = "internal" -> "IMM" [] s = "external" -> "EXT"
          [] s = "bus" -> "bus"]

FLUKE_FUNCS ==
    [f \in {"CURR:AC", "CURR:DC", "CONT", "DIOD", "FREQ", "RES", "VOLT:AC",
            "VOLT:DC"} |->
        CASE f = "CURR:AC" -> "AAC"  [] f = "CURR:DC" -> "ADC"
          [] f = "CONT" -> "CONT"    [] f = "DIOD" -> "DIODE"
          [] f = "FREQ" -> "FREQ"    [] f = "RES" -> "OHMS"
          [] f = "VOLT:AC" -> "VAC"  [] f = "VOLT:DC" -> "VDC"]

FLUKE_RANGES ==
    [r \in {"300mV", "3V", "30V", "300V", "1000V", "300Ohm", "3kOhm",
            "30kOhm", "300kOhm", "3MOhm", "30MOhm", "300MOhm", "30mA",
            "10mA", "100mA", "10A", "1000Hz", "10kHz", "100kHz", "1000kHz",
            "1MHz", "100mV", "1V", "10V", "100V", "750V", "100Ohm", "1kOhm",
            "10kOhm", "100kOhm", "1MOhm", "10MOhm", "100MOhm"} |->
        CASE r \in {"300mV", "300Ohm", "30mA", "10mA", "1000Hz", "100mV",
                    "100Ohm"} -> "1"
          [] r \in {"3V", "3kOhm", "100mA", "10kHz", "1V", "1kOhm"} -> "2"
          [] r \in {"30V", "30kOhm", "10A", "100kHz", "10V", "10kOhm"} -> "3"
          [] r \in {"300V", "300kOhm", "1000kHz", "100V", "750V",
                    "100kOhm"} -> "4"
          [] r \in {"1000V", "3MOhm", "1MHz", "1MOhm"} -> "5"
          [] r \in {"30MOhm", "10MOhm"} -> "6"
          [] r \in {"300MOhm", "100MOhm"} -> "7"]

FLUKE_RATES ==
    [r \in {"min", "slow", "medium", "fast", "max"} |->
        CASE r \in {"min", "slow"} -> "S" [] r = "medium" -> "M"
          [] r \in {"fast", "max"} -> "F"]

FLUKE_TRIGGER_TYPES ==
    [s \in {"internal", "external", "bus"} |->
        CASE s = "internal" -> "1" [] s = "external" -> "5"
          [] s = "bus" -> "3"]

(***************************************************************************)
(* Multimeter drivers.  The attributes of the object are the record        *)
(* [fn, src, tm]: self._function, the value last assigned to               *)
(* trigger_source, and self._trigger_measurement.  A property assignment   *)
(* or method yields [st, log, calls, err]: the attributes afterwards, the  *)
(* transport events, the trigger()/read_val() calls made and the           *)
(* exception raised (NoError when it returns).                             *)
(***************************************************************************)
Multimeters == {"HP34401AD", "Fluke45"}

Ok(st, l) == [st |-> st, log |-> l, calls |-> <<>>, err |-> NoError]

Fail(st, e) == [st |-> st, log |-> <<>>, calls |-> <<>>, err |-> e]

\* HP34401AD.function setter
HP_SetFunction(st, v) ==
    Ok([st EXCEPT !.fn = v], InstrumentWrite(Cmd("FUNC", "", v)))

\* HP34401AD.range setter
HP_SetRange(st, v) ==
    IF v \in DOMAIN HP_RANGES
    THEN Ok(st, InstrumentWrite(Cmd(":RANG", st.fn, HP_RANGES[v])))
    ELSE Fail(st, "KeyError")

\* HP34401AD.rate setter
HP_SetRate(st, v) ==
    IF v \in DOMAIN HP_RATES
    THEN Ok(st, InstrumentWrite(Cmd(":NPLC", st.fn, HP_RATES[v])))
    ELSE Fail(st, "KeyError")

\* HP34401AD.trigger_source setter
HP_SetTriggerSource(st, v) ==
    Ok([st EXCEPT !.src = v], InstrumentWrite(Cmd("TRIG:SOUR", "", v)))

\* Fluke45.function setter
Fluke_SetFunction(st, v) ==
    IF v \in DOMAIN FLUKE_FUNCS
    THEN Ok([st EXCEPT !.fn = v], Fluke45Write(Cmd(FLUKE_FUNCS[v], "", "")))
    ELSE Fail(st, "KeyError")

\* Fluke45.range setter
Fluke_SetRange(st, v) ==
    IF v \in DOMAIN FLUKE_RANGES
    THEN Ok(st, Fluke45Write(Cmd("RANGE", "", FLUKE_RANGES[v])))
    ELSE Fail(st, "KeyError")

\* Fluke45.rate setter
Fluke_SetRate(st, v) ==
    IF v \in DOMAIN FLUKE_RATES
    THEN Ok(st, Fluke45Write(Cmd("RATE", "", FLUKE_RATES[v])))
    ELSE Fail(st, "KeyError")

\* Fluke45.trigger_source setter
Fluke_SetTriggerSource(st, v) ==
    IF v \in DOMAIN FLUKE_TRIGGER_TYPES
    THEN Ok([st EXCEPT !.src = v],
            Fluke45Write(Cmd("TRIGGER", "", FLUKE_TRIGGER_TYPES[v])))
    ELSE Fail(st, "KeyError")

\* self.<prop> = v, dispatched on the class of self
SetProperty(drv, st, prop, v) ==
    CASE prop = "function" ->
            IF drv = "Fluke45" THEN Fluke_SetFunction(st, v)
            ELSE HP_SetFunction(st, v)
      [] prop = "rate" ->
            IF drv = "Fluke45" THEN Fluke_SetRate(st, v)
            ELSE HP_SetRate(st, v)
      [] prop = "range" ->
            IF drv = "Fluke45" THEN Fluke_SetRange(st, v)
            ELSE HP_SetRange(st, v)
      [] prop = "trigger_source" ->
            IF drv = "Fluke45" THEN Fluke_SetTriggerSource(st, v)
            ELSE HP_SetTriggerSource(st, v)

\* Multimeter.setup assigning the range before the rate
SetupOrderRangeFirst == <<"function", "range", "rate", "trigger_source">>

\* the order in which Multimeter.setup assigns the four properties
SetupOrder == <<"function", "rate", "range", "trigger_source">>

\* the assignments of Multimeter.setup from the i-th on; an exception ends
\* the call, the events of the assignments before it stay issued
RECURSIVE SetupFrom(_, _, _, _)
SetupFrom(drv, st, args, i) ==
    IF i > Len(SetupOrder) THEN Ok(st, <<>>)
    ELSE LET r == SetProperty(drv, st, SetupOrder[i], args[SetupOrder[i]])
         IN  IF r.err /= NoError THEN r
             ELSE LET rest == SetupFrom(drv, r.st, args, i + 1)
                  IN  [rest EXCEPT !.log = r.log \o rest.log]

\* Multimeter.setup(func, rate, range_, trigger_type, echo)
MultimeterSetup(drv, st, args) == SetupFrom(drv, st, args, 1)

\* Instrument.trigger / HP34401AD.trigger: self.write('*TRG')
Trigger(drv) == DriverWrite(drv, Cmd("*TRG", "", ""))

\* HP34401AD.read_val
HP_ReadVal == PyVisaQuery(Cmd("READ?", "", ""))

\* Fluke45.read_val
Fluke_ReadVal == Fluke45Query(Cmd("VAL?", "", ""))

\* the getter of the property Multimeter.trigger_measurement: the drivers do
\* not override it and its body `...` returns None, which is falsy
TriggerMeasurement(st) == FALSE

\* a call that makes trigger() and then read_val()
TriggerThenRead(st, trig, rd) ==
    [st |-> st, log |-> trig \o rd, calls |-> <<"trigger", "read_val">>,
     err |-> NoError]

\* a call that makes read_val() only
ReadOnly(st, rd) ==
    [st |-> st, log |-> rd, calls |-> <<"read_val">>, err |-> NoError]

\* HP34401AD.measure that triggers whatever the flag says
HP_MeasureAlwaysTriggers(st) ==
    TriggerThenRead(st, Trigger("HP34401AD"), HP_ReadVal)

\* HP34401AD.measure: tests the attribute self._trigger_measurement
HP_Measure(st) ==
    IF st.tm
    THEN TriggerThenRead(st, Trigger("HP34401AD"), HP_ReadVal)
    ELSE ReadOnly(st, HP_ReadVal)

\* Multimeter.measure, inherited by Fluke45: tests self.trigger_measurement
MultimeterMeasure(st) ==
    IF TriggerMeasurement(st)
    THEN TriggerThenRead(st, Trigger("Fluke45"), Fluke_ReadVal)
    ELSE ReadOnly(st, Fluke_ReadVal)

\* self.measure(), dispatched on the class of self
Measure(drv, st) ==
    IF drv = "HP34401AD" THEN HP_Measure(st) ELSE MultimeterMeasure(st)

(***************************************************************************)
(* Composite operations of the oscilloscope and network analyzer classes.  *)
(* A statement yields [log, err]; Chain runs statements in program order   *)
(* and stops at the first exception, keeping the events issued before it.  *)
(***************************************************************************)
Wr(drv, cmd) == [log |-> DriverWrite(drv, cmd), err |-> NoError]

Skip == [log |-> <<>>, err |-> NoError]

Raise(e) == [log |-> <<>>, err |-> e]

RECURSIVE Chain(_)
Chain(stmts) ==
    IF stmts = <<>> THEN Skip
    ELSE IF Head(stmts).err /= NoError THEN Head(stmts)
         ELSE LET r == Chain(Tail(stmts))
              IN  [log |-> Head(stmts).log \o r.log, err |-> r.err]

\* Oscilloscope.timebase assigning the position before the reference
TimebasePositionBeforeReference(sample_rate, resolution, record_length, h_scale, h_range, h_ref, h_pos) ==
    Chain(<<
        IF h_scale /= None /\ h_range = None
        THEN Wr("RTO6", Cmd("TIM:SCAL", "", NumStr(h_scale)))
        ELSE IF h_range /= None /\ h_scale = None
        THEN Wr("RTO6", Cmd("TIM:RANG", "", NumStr(h_range)))
        ELSE IF h_scale /= None /\ h_range /= None
        THEN Raise("ValueError")
        ELSE Skip,
        IF sample_rate /= None /\ resolution = None
        THEN Wr("RTO6", Cmd("ACQ:SRAT", "", NumStr(sample_rate)))
        ELSE IF resolution /= None /\ sample_rate = None
        THEN Wr("RTO6", Cmd("ACQ:RES", "", NumStr(resolution)))
        ELSE IF sample_rate /= None /\ resolution /= None
        THEN Raise("ValueError")
        ELSE Skip,
        IF record_length /= None
        THEN Wr("RTO6", Cmd("ACQ:POIN", "", NumStr(record_length)))
        ELSE Skip,
        IF h_pos /= None
        THEN Wr("RTO6", Cmd("TIM:HOR:POS", "", NumStr(h_pos)))
        ELSE Skip,
        IF h_ref /= None
        THEN Wr("RTO6", Cmd("TIM:REF", "", NumStr(h_ref)))
        ELSE Skip >>)

\* Oscilloscope.timebase on an RTO6
Timebase(sample_rate, resolution, record_length, h_scale, h_range, h_ref, h_pos) ==
    Chain(<<
        IF h_scale /= None /\ h_range = None
        THEN Wr("RTO6", Cmd("TIM:SCAL", "", NumStr(h_scale)))
        ELSE IF h_range /= None /\ h_scale = None
        THEN Wr("RTO6", Cmd("TIM:RANG", "", NumStr(h_range)))
        ELSE IF h_scale /= None /\ h_range /= None
        THEN Raise("ValueError")
        ELSE Skip,
        IF sample_rate /= None /\ resolution = None
        THEN Wr("RTO6", Cmd("ACQ:SRAT", "", NumStr(sample_rate)))
        ELSE IF resolution /= None /\ sample_rate = None
        THEN Wr("RTO6", Cmd("ACQ:RES", "", NumStr(resolution)))
        ELSE IF sample_rate /= None /\ resolution /= None
        THEN Raise("ValueError")
        ELSE Skip,
        IF record_length /= None
        THEN Wr("RTO6", Cmd("ACQ:POIN", "", NumStr(record_length)))
        ELSE Skip,
        IF h_ref /= None
        THEN Wr("RTO6", Cmd("TIM:REF", "", NumStr(h_ref)))
        ELSE Skip,
        IF h_pos /= None
        THEN Wr("RTO6", Cmd("TIM:HOR:POS", "", NumStr(h_pos)))
        ELSE Skip >>)

\* RTO6.SOURCES
RTO6_SOURCES ==
    [s \in {"C1", "C2", "C3", "C4", "EXT"} |->
        CASE s = "C1" -> "CHAN1" [] s = "C2" -> "CHAN2" [] s = "C3" -> "CHAN3"
          [] s = "C4" -> "CHAN4" [] s = "EXT" -> "EXT"]

\* RTO6.NUM_SOURCES
RTO6_NUM_SOURCES ==
    [c \in {"CHAN1", "CHAN2", "CHAN3", "CHAN4", "EXT"} |->
        CASE c = "CHAN1" -> 1 [] c = "CHAN2" -> 2 [] c = "CHAN3" -> 3
          [] c = "CHAN4" -> 4 [] c = "EXT" -> 5]

\* the trigger source the oscilloscope has selected once it has executed the
\* commands of a log, src being the source selected before
RECURSIVE SourceAfter(_, _)
SourceAfter(src, l) ==
    IF l = <<>> THEN src
    ELSE SourceAfter(IF Head(l).t = "write" /\ Head(l).cmd.name = "TRIG1:SOUR"
                     THEN Head(l).cmd.arg ELSE src,
                     Tail(l))

\* RTO6.trigger_source setter
RTO6_SetTriggerSource(value) ==
    IF value \in DOMAIN RTO6_SOURCES
    THEN Wr("RTO6", Cmd("TRIG1:SOUR", "", RTO6_SOURCES[value]))
    ELSE Raise("KeyError")

\* RTO6.trigger_level setter; reply is what the instrument answers to the
\* 'TRIG1:SOUR?' the getter of self.trigger_source sends
RTO6_SetTriggerLevel(reply, value) ==
    IF reply \in DOMAIN RTO6_NUM_SOURCES
    THEN [log |-> PyVisaQuery(Cmd("TRIG1:SOUR?", "", ""))
                  \o DriverWrite("RTO6",
                        Cmd("TRIG1:LEV", NumStr(RTO6_NUM_SOURCES[reply]),
                            NumStr(value))),
          err |-> NoError]
    ELSE [log |-> PyVisaQuery(Cmd("TRIG1:SOUR?", "", "")), err |-> "KeyError"]

\* RTO6.trigger_coupling setter
RTO6_SetTriggerCoupling(value) ==
    Wr("RTO6", Cmd("TRIG1:ANED:COUP", "", value))

\* Oscilloscope.trigger_config with the level assigned before the source
TriggerConfigLevelFirst(src, source, level, coupling) ==
    Chain(<< RTO6_SetTriggerLevel(src, level),
             RTO6_SetTriggerSource(source),
             RTO6_SetTriggerCoupling(coupling) >>)

\* Oscilloscope.trigger_config on an RTO6 whose selected source is src
TriggerConfig(src, source, level, coupling) ==
    Chain(<< RTO6_SetTriggerSource(source),
             RTO6_SetTriggerLevel(
                 SourceAfter(src, RTO6_SetTriggerSource(source).log), level),
             RTO6_SetTriggerCoupling(coupling) >>)

\* InputChannel.setup on an RTO6Channel with self.number = n
InputChannelSetup(n, v_scale, v_range, v_pos, coupling) ==
    Chain(<<
        Wr("RTO6Channel", Cmd("CHAN:STAT", NumStr(n), "ON")),
        IF v_scale /= None /\ v_range = None
        THEN Wr("RTO6Channel", Cmd("CHAN:SCAL", NumStr(n), NumStr(v_scale)))
        ELSE IF v_range /= None /\ v_scale = None
        THEN Wr("RTO6Channel", Cmd("CHAN:RANG", NumStr(n), NumStr(v_range)))
        ELSE IF v_scale /= None /\ v_range /= None
        THEN Raise("ValueError")
        ELSE Skip,
        IF v_pos /= None
        THEN Wr("RTO6Channel", Cmd("CHAN:POS", NumStr(n), NumStr(v_pos)))
        ELSE Skip,
        IF coupling /= StrNone
        THEN Wr("RTO6Channel", Cmd("CHAN:COUP", NumStr(n), coupling))
        ELSE Skip >>)

\* Math.setup on an RTO6Math with self.number = n
MathSetup(n, expr, v_range, v_scale) ==
    Chain(<<
        Wr("RTO6Math", Cmd("CALC:MATH:STAT", NumStr(n), "ON")),
        Wr("RTO6Math", Cmd("CALC:MATH", NumStr(n), expr)),
        IF v_scale /= None /\ v_range = None
        THEN Wr("RTO6Math",
                Cmd("CALC:MATH:VERT:SCAL", NumStr(n), NumStr(v_scale)))
        ELSE IF v_range /= None /\ v_scale = None
        THEN Wr("RTO6Math",
                Cmd("CALC:MATH:VERT:RANG", NumStr(n), NumStr(v_range)))
        ELSE IF v_scale /= None /\ v_range /= None
        THEN Raise("ValueError")
        ELSE Skip >>)

\* MS464xB.channel, the default of the constructor
VnaChannel == 1

\* MS464xB.sweep_type setter
MS_SetSweepType(value) ==
    Wr("MS464xB", Cmd(":SENS:SWE:TYP", NumStr(VnaChannel), value))

\* NetworkAnalyzer.config_freq_sweep on an MS464xB
ConfigFreqSweep(sweep_length, start, stop, center, span, sweep_type) ==
    Chain(<<
        Wr("MS464xB", Cmd(":SENS:SWE:TYP", NumStr(VnaChannel), sweep_type)),
        Wr("MS464xB",
           Cmd(":SENS:SWE:POIN", NumStr(VnaChannel), NumStr(sweep_length))),
        IF (Truthy(start) /\ Truthy(stop))
           /\ ~(Truthy(center) \/ Truthy(span))
        THEN Chain(<<
            Wr("MS464xB",
               Cmd(":SENS:FREQ:START", NumStr(VnaChannel), NumStr(start))),
            Wr("MS464xB",
               Cmd(":SENS:FREQ:STOP", NumStr(VnaChannel), NumStr(stop))) >>)
        ELSE IF (Truthy(center) /\ Truthy(span))
                /\ ~(Truthy(start) \/ Truthy(stop))
        THEN Chain(<<
            Wr("MS464xB",
               Cmd(":SENS:FREQ:CENT", NumStr(VnaChannel), NumStr(center))),
            Wr("MS464xB",
               Cmd(":SENS:FREQ:SPAN", NumStr(VnaChannel), NumStr(span))) >>)
        ELSE Raise("ValueError") >>)

\* `super().name = value` inside a method: a super object has no settable
\* attributes, the statement raises AttributeError
SuperAssign(name, value) == Raise("AttributeError")

\* the commands of the MS464xBPort power-sweep setters, self.number = n
PowerSweepCmd(n, field, value) ==
    Cmd(":SOUR" \o NumStr(VnaChannel) \o ":POW:PORT:LIN:POW:" \o field,
        NumStr(n), NumStr(value))

\* Port.config_power_sweep on an MS464xBPort with self.number = n
ConfigPowerSweep(n, sweep_length, cw_frequency, start, stop) ==
    Chain(<<
        SuperAssign("sweep_type", "power"),
        SuperAssign("cw_frequency", NumStr(cw_frequency)),
        Wr("MS464xBPort", PowerSweepCmd(n, "STAR", start)),
        Wr("MS464xBPort", PowerSweepCmd(n, "STOP", stop)),
        Wr("MS464xBPort", PowerSweepCmd(n, "POIN", sweep_length)) >>)

(***************************************************************************)
(* Status registers (Instrument).  A flag is a Python bool: 0 or 1.        *)
(***************************************************************************)
\* str(n) of an integer n >= 0, as an f-string formats it
RECURSIVE IntStr(_)
IntStr(n) ==
    IF n < 10
    THEN <<"0", "1", "2", "3", "4", "5", "6", "7", "8", "9">>[n + 1]
    ELSE IntStr(n \div 10) \o IntStr(n % 10)

\* a | b on non-negative integers
RECURSIVE BitOr(_, _)
BitOr(a, b) ==
    IF a = 0 THEN b
    ELSE IF b = 0 THEN a
    ELSE 2 * BitOr(a \div 2, b \div 2) + (IF (a % 2) + (b % 2) > 0 THEN 1 ELSE 0)

\* a << n
Shl(a, n) == a * (2 ^ n)

\* the flags of a register-select call, in the order of its parameters
Flags == [1 .. 6 -> {0, 1}]

\* the value of event_status_enable_select with power_on shifted to bit 6
EseValuePowerOnAtBit6(f) ==
    LET operation_complete == f[1]
        query_error == f[2]
        device_specific_error == f[3]
        execution_error == f[4]
        command_error == f[5]
        power_on == f[6]
    IN  BitOr(BitOr(BitOr(BitOr(BitOr(Shl(power_on, 6),
                                      Shl(command_error, 5)),
                                Shl(execution_error, 4)),
                          Shl(device_specific_error, 3)),
                    Shl(query_error, 2)),
              operation_complete)

\* the value event_status_enable_select assigns to event_status_enable
EseValue(f) ==
    LET operation_complete == f[1]
        query_error == f[2]
        device_specific_error == f[3]
        execution_error == f[4]
        command_error == f[5]
        power_on == f[6]
    IN  BitOr(BitOr(BitOr(BitOr(BitOr(Shl(power_on, 7),
                                      Shl(command_error, 5)),
                                Shl(execution_error, 4)),
                          Shl(device_specific_error, 3)),
                    Shl(query_error, 2)),
              operation_complete)

\* the value service_request_enable_select assigns to service_request_enable
SreValue(f) ==
    LET error_queue == f[1]
        questionable_data_summary == f[2]
        message_available == f[3]
        standard_event_summary == f[4]
        master_summary == f[5]
        standard_operation_summary == f[6]
    IN  BitOr(BitOr(BitOr(BitOr(BitOr(Shl(standard_operation_summary, 7),
                                      Shl(master_summary, 6)),
                                Shl(standard_event_summary, 5)),
                          Shl(message_available, 4)),
                    Shl(questionable_data_summary, 3)),
              Shl(error_queue, 2))

\* self.event_status_enable = value
SetEventStatusEnable(drv, value) ==
    [log |-> DriverWrite(drv, Cmd("*ESE", "", IntStr(value))), err |-> NoError]

\* self.service_request_enable = value
SetServiceRequestEnable(drv, value) ==
    [log |-> DriverWrite(drv, Cmd("*SRE", "", IntStr(value))), err |-> NoError]

\* instr.event_status_enable_select(...)
EventStatusEnableSelect(drv, f) == SetEventStatusEnable(drv, EseValue(f))

\* instr.service_request_enable_select(...)
ServiceRequestEnableSelect(drv, f) ==
    SetServiceRequestEnable(drv, SreValue(f))

(***************************************************************************)
(* Spec: one object, one public call per step.                             *)
(***************************************************************************)
Drivers == Multimeters \cup {"RTO6", "RTO6Channel", "RTO6Math", "MS464xB",
                             "MS464xBPort"}

\* sub-unit numbers of the sub-object classes (0: the object is a parent)
Numbers(drv) ==
    CASE drv = "RTO6Channel" -> 1 .. 4
      [] drv = "RTO6Math" -> 1 .. 8
      [] drv = "MS464xBPort" -> 1 .. 2
      [] OTHER -> {0}

\* argument values the calls are tried with; "bogus" is in no table and
\* "300mV" is a Range label only the Fluke45 table has
FunctionArgs == {"VOLT:DC", "RES", "bogus"}

RateArgs == {"slow", "bogus"}

RangeArgs == {"10V", "300mV", "bogus"}

TriggerArgs == {"internal", "external", "bus", "bogus"}

SweepTypes == {"lin", "log", "power"}

CouplingArgs == {StrNone, "DC", "AC"}

ExprArgs == {"C1W1+C2W1"}

\* trigger sources tried: the five of RTO6.SOURCES and one outside it
SourceArgs == {"C1", "C2", "C3", "C4", "EXT", "bogus"}

TriggerCouplingArgs == {"DC", "DCL", "AC"}

\* the Literal types the setters are annotated with
Declared(prop) ==
    CASE prop = "function" ->
            {"CURR:AC", "CURR:DC", "CONT", "DIOD", "FREQ", "RES", "VOLT:AC",
             "VOLT:DC"}
      [] prop = "range" ->
            {"300mV", "3V", "30V", "300V", "750V", "1kV", "300Ohm", "3kOhm",
             "30kOhm", "300kOhm", "3MOhm", "30MOhm", "300MOhm", "10mA",
             "30mA", "100mA", "1A", "3A", "10A", "1000Hz", "10kHz", "100kHz",
             "1000kHz", "1MHz", "100mV", "1V", "10V", "100V", "100Ohm",
             "1kOhm", "10kOhm", "100kOhm", "1MOhm", "10MOhm", "100MOhm"}
      [] prop = "rate" -> {"min", "slow", "medium", "fast", "max"}
      [] prop = "trigger_source" -> {"internal", "external", "bus"}
      [] prop = "sweep_type" -> {"lin", "log", "power"}

PropertyArgs(prop) ==
    CASE prop = "function" -> FunctionArgs
      [] prop = "rate" -> RateArgs
      [] prop = "range" -> RangeArgs
      [] prop = "trigger_source" -> TriggerArgs

Call(op, str, num) == [op |-> op, str |-> str, num |-> num]

NoCall == Call("none", <<>>, <<>>)

Attrs == [fn |-> _function, src |-> trigger_src, tm |-> _trigger_measurement]

SyncIdle ==
    /\ layer = "wai" /\ wpc = "idle" /\ inq = <<>> /\ running = NoCmd
    /\ outq = <<>> /\ sent = 0 /\ completed = 0

QueryIdle ==
    /\ qdrv = "HP34401AD"
    /\ qpc = [c \in {1, 2} |-> "idle"]
    /\ qleft = [c \in {1, 2} |-> 0]
    /\ qbuf = <<>>
    /\ qval = [c \in {1, 2} |-> 0]
    /\ qcmd = [c \in {1, 2} |-> 0]
    /\ qover = [c \in {1, 2} |-> FALSE]
    /\ qn = 0

\* the attributes the constructors assign: Multimeter.__init__ sets
\* _trigger_measurement = False, the driver __init__ sets _function = None.
\* (The commands the constructors send, and whether construction succeeds,
\* are not part of this state.)
CallIdle ==
    /\ _function = NoneStr
    /\ _trigger_measurement = FALSE
    /\ trigger_src = "unset"
    /\ scope_source = "CHAN1"
    /\ last = NoCall
    /\ prev = [call |-> NoCall, log |-> <<>>, err |-> NoError]
    /\ log = <<>>
    /\ calls = <<>>
    /\ raised = NoError

\* the session of the object under use is open; its sub-objects are not
\* part of Spec, SpecSync and SpecQuery
\* no RTO6 dialogue is under observation
ScopeIdle ==
    /\ sc_hist = <<>> /\ sc_store = <<>> /\ sc_before = <<>>
    /\ sc_log = <<>> /\ sc_ret = None /\ sc_err = NoError

\* no Fluke 45 dialogue is under observation
AckIdle ==
    /\ abuf = <<>> /\ aret = None /\ alast = [op |-> "none", cmd |-> NoCmd, id |-> 0]
    /\ an = 0 /\ aerr = NoError

\* no call on the DAC module is under observation
DacIdle ==
    /\ dac_call = [op |-> "none"] /\ dac_pc = "returned" /\ dac_ret = None
    /\ dac_port = <<>> /\ dac_reads = 0 /\ dac_err = NoError

LifeIdle ==
    /\ ScopeIdle
    /\ AckIdle
    /\ DacIdle
    /\ life = "constructed" /\ resource = 1 /\ session = "open" /\ subs = {}
    /\ given = [write_termination |-> "\n", read_termination |-> "\n",
                query_delay |-> 0, timeout |-> 0]
    /\ attrs = given

Init ==
    /\ driver \in Drivers
    /\ number \in Numbers(driver)
    /\ echo = FALSE
    /\ CallIdle
    /\ SyncIdle
    /\ QueryIdle
    /\ LifeIdle

\* the effect of a multimeter call with result r
DmmEffect(r) ==
    /\ _function' = r.st.fn
    /\ trigger_src' = r.st.src
    /\ _trigger_measurement' = r.st.tm
    /\ log' = r.log
    /\ calls' = r.calls
    /\ raised' = r.err

\* the effect of a composite call with result r on the other classes
CompositeEffect(r) ==
    /\ log' = r.log
    /\ calls' = <<>>
    /\ raised' = r.err
    /\ UNCHANGED <<_function, trigger_src, _trigger_measurement, echo, prev,
                   scope_source>>

\* dmm.<prop> = v
Assign ==
    /\ driver \in Multimeters /\ last = NoCall
    /\ \E prop \in {"function", "rate", "range", "trigger_source"} :
      \E v \in PropertyArgs(prop) :
        /\ DmmEffect(SetProperty(driver, Attrs, prop, v))
        /\ last' = Call(prop, <<v>>, <<>>)
        /\ UNCHANGED <<driver, number, echo, prev, scope_source>>

\* dmm.setup(func, rate, range_, trigger_type, echo)
Setup ==
    /\ driver \in Multimeters /\ last = NoCall
    /\ \E f \in FunctionArgs, r \in RateArgs, g \in RangeArgs,
       t \in TriggerArgs, e \in BOOLEAN :
        /\ echo' = e
        /\ DmmEffect(MultimeterSetup(driver, Attrs,
                [function |-> f, rate |-> r, range |-> g,
                 trigger_source |-> t]))
        /\ last' = Call("setup", <<f, r, g, t>>, <<IF e THEN 1 ELSE 0>>)
        /\ UNCHANGED <<driver, number, prev, scope_source>>

\* dmm.measure()
DoMeasure ==
    /\ driver \in Multimeters /\ last = NoCall
    /\ DmmEffect(Measure(driver, Attrs))
    /\ last' = Call("measure", <<>>, <<>>)
    /\ UNCHANGED <<driver, number, echo, prev, scope_source>>

\* scope.timebase(...)
DoTimebase ==
    /\ driver = "RTO6" /\ last = NoCall
    /\ \E sr \in OptVals, res \in OptVals, rl \in OptVals, hs \in OptVals,
       hr \in OptVals, href \in OptVals, hp \in OptVals :
        /\ CompositeEffect(Timebase(sr, res, rl, hs, hr, href, hp))
        /\ last' = Call("timebase", <<>>, <<sr, res, rl, hs, hr, href, hp>>)
        /\ UNCHANGED <<driver, number>>

\* scope.trigger_config(source, level, coupling); the instrument executes
\* the commands it was sent
DoTriggerConfig ==
    /\ driver = "RTO6" /\ last = NoCall
    /\ \E s \in SourceArgs, l \in Vals, c \in TriggerCouplingArgs :
        LET r == TriggerConfig(scope_source, s, l, c)
        IN  /\ log' = r.log
            /\ calls' = <<>>
            /\ raised' = r.err
            /\ scope_source' = SourceAfter(scope_source, r.log)
            /\ last' = Call("trigger_config", <<s, c, scope_source>>, <<l>>)
            /\ UNCHANGED <<driver, number, _function, trigger_src,
                           _trigger_measurement, echo, prev>>

\* scope.C<n>.setup(...)
DoChannelSetup ==
    /\ driver = "RTO6Channel" /\ last = NoCall
    /\ \E vs \in OptVals, vr \in OptVals, vp \in OptVals, c \in CouplingArgs :
        /\ CompositeEffect(InputChannelSetup(number, vs, vr, vp, c))
        /\ last' = Call("InputChannel.setup", <<c>>, <<vs, vr, vp>>)
        /\ UNCHANGED <<driver, number>>

\* scope.M<n>.setup(...)
DoMathSetup ==
    /\ driver = "RTO6Math" /\ last = NoCall
    /\ \E x \in ExprArgs, vr \in OptVals, vs \in OptVals :
        /\ CompositeEffect(MathSetup(number, x, vr, vs))
        /\ last' = Call("Math.setup", <<x>>, <<vr, vs>>)
        /\ UNCHANGED <<driver, number>>

\* vna.sweep_type = v
AssignSweepType ==
    /\ driver = "MS464xB" /\ last = NoCall
    /\ \E v \in SweepTypes \cup {"bogus"} :
        /\ CompositeEffect(MS_SetSweepType(v))
        /\ last' = Call("sweep_type", <<v>>, <<>>)
        /\ UNCHANGED <<driver, number>>

\* vna.config_freq_sweep(...)
DoConfigFreqSweep ==
    /\ driver = "MS464xB" /\ last = NoCall
    /\ \E n \in Vals, a \in OptVals, b \in OptVals, c \in OptVals,
       d \in OptVals, t \in SweepTypes :
        /\ CompositeEffect(ConfigFreqSweep(n, a, b, c, d, t))
        /\ last' = Call("config_freq_sweep", <<t>>, <<n, a, b, c, d>>)
        /\ UNCHANGED <<driver, number>>

\* vna.P<n>.config_power_sweep(...)
DoConfigPowerSweep ==
    /\ driver = "MS464xBPort" /\ last = NoCall
    /\ \E n \in Vals, f \in Vals, a \in Vals, b \in Vals :
        /\ CompositeEffect(ConfigPowerSweep(number, n, f, a, b))
        /\ last' = Call("config_power_sweep", <<>>, <<n, f, a, b>>)
        /\ UNCHANGED <<driver, number>>

\* the classes of Spec that inherit the register methods of Instrument
InstrumentClasses == Multimeters \cup {"RTO6", "MS464xB"}

\* instr.event_status_enable_select(...)
DoEventStatusEnableSelect ==
    /\ driver \in InstrumentClasses /\ last = NoCall
    /\ \E f \in Flags :
        /\ CompositeEffect(EventStatusEnableSelect(driver, f))
        /\ last' = Call("event_status_enable_select", <<>>, f)
        /\ UNCHANGED <<driver, number>>

\* instr.service_request_enable_select(...)
DoServiceRequestEnableSelect ==
    /\ driver \in InstrumentClasses /\ last = NoCall
    /\ \E f \in Flags :
        /\ CompositeEffect(ServiceRequestEnableSelect(driver, f))
        /\ last' = Call("service_request_enable_select", <<>>, f)
        /\ UNCHANGED <<driver, number>>

\* the record of the observed call is cleared; the attributes stay.  The
\* record of a multimeter setup() is kept as the call before the next one.
Forget ==
    /\ last /= NoCall
    /\ last' = NoCall
    /\ prev' = IF driver \in Multimeters /\ last.op = "setup"
               THEN [call |-> last, log |-> log, err |-> raised]
               ELSE [call |-> NoCall, log |-> <<>>, err |-> NoError]
    /\ log' = <<>>
    /\ calls' = <<>>
    /\ raised' = NoError
    /\ UNCHANGED <<driver, number, echo, _function, trigger_src,
                   _trigger_measurement, scope_source>>

Next ==
    \/ Assign /\ UNCHANGED <<syncVars, queryVars, lifeVars, dacVars, ackVars, scopeVars>>
    \/ Setup /\ UNCHANGED <<syncVars, queryVars, lifeVars, dacVars, ackVars, scopeVars>>
    \/ DoMeasure /\ UNCHANGED <<syncVars, queryVars, lifeVars, dacVars, ackVars, scopeVars>>
    \/ DoTimebase /\ UNCHANGED <<syncVars, queryVars, lifeVars, dacVars, ackVars, scopeVars>>
    \/ DoTriggerConfig /\ UNCHANGED <<syncVars, queryVars, lifeVars, dacVars, ackVars, scopeVars>>
    \/ DoChannelSetup /\ UNCHANGED <<syncVars, queryVars, lifeVars, dacVars, ackVars, scopeVars>>
    \/ DoMathSetup /\ UNCHANGED <<syncVars, queryVars, lifeVars, dacVars, ackVars, scopeVars>>
    \/ AssignSweepType /\ UNCHANGED <<syncVars, queryVars, lifeVars, dacVars, ackVars, scopeVars>>
    \/ DoConfigFreqSweep /\ UNCHANGED <<syncVars, queryVars, lifeVars, dacVars, ackVars, scopeVars>>
    \/ DoConfigPowerSweep /\ UNCHANGED <<syncVars, queryVars, lifeVars, dacVars, ackVars, scopeVars>>
    \/ DoEventStatusEnableSelect
         /\ UNCHANGED <<syncVars, queryVars, lifeVars, dacVars, ackVars, scopeVars>>
    \/ DoServiceRequestEnableSelect
         /\ UNCHANGED <<syncVars, queryVars, lifeVars, dacVars, ackVars, scopeVars>>
    \/ Forget /\ UNCHANGED <<syncVars, queryVars, lifeVars, dacVars, ackVars, scopeVars>>

Spec == Init /\ [][Next]_vars

(***************************************************************************)
(* SpecSync: write() against an instrument that takes the commands it      *)
(* receives from its input buffer one at a time and needs time to execute  *)
(* each.  layer = "wai" is Instrument.write / Channel.write of             *)
(* instruments/base/instrument.py, layer = "opc" is Instrument.write of    *)
(* visa_instrument.py.                                                     *)
(***************************************************************************)
OPC == Cmd("*OPC?", "", "")

UserCmd(k) == Cmd("CMD", "", NumStr(k))

\* the caller is outside write(): it never called, or the call returned
Outside == wpc \in {"idle", "returned"}

\* instruments/base Instrument.write, first statement: super().write(cmd)
WaiWriteCmd ==
    /\ layer = "wai" /\ Outside /\ sent < MaxWrites
    /\ inq' = Append(inq, UserCmd(sent + 1))
    /\ sent' = sent + 1
    /\ wpc' = "wrote"
    /\ UNCHANGED <<layer, running, outq, completed>>

\* instruments/base Instrument.write, second statement: super().write('*WAI');
\* the method returns
WaiWriteWai ==
    /\ layer = "wai" /\ wpc = "wrote"
    /\ inq' = Append(inq, WAI)
    /\ wpc' = "returned"
    /\ UNCHANGED <<layer, running, outq, sent, completed>>

\* instruments/base Instrument.write, first statement: the resource.write
\* of the command times out; the exception ends the method before '*WAI'
WaiCmdTimeout ==
    /\ layer = "wai" /\ Outside /\ sent < MaxWrites
    /\ sent' = sent + 1
    /\ wpc' = "timeout"
    /\ UNCHANGED <<layer, inq, running, outq, completed>>

\* visa_instrument Instrument.write: self.query(cmd + ';*OPC?'), the write
\* half of resource.query
OpcWriteCmd ==
    /\ layer = "opc" /\ Outside /\ sent < MaxWrites
    /\ inq' = inq \o <<UserCmd(sent + 1), OPC>>
    /\ sent' = sent + 1
    /\ wpc' = "reading"
    /\ UNCHANGED <<layer, running, outq, completed>>

\* the read half of resource.query gets the reply; the method returns
OpcRead ==
    /\ layer = "opc" /\ wpc = "reading" /\ outq /= <<>>
    /\ outq' = Tail(outq)
    /\ wpc' = "returned"
    /\ UNCHANGED <<layer, inq, running, sent, completed>>

\* the read half of resource.query times out and the handshake is sent once
\* more before the method gives up
OpcTimeoutAfterRetry ==
    /\ layer = "opc" /\ wpc = "reading" /\ outq = <<>>
    /\ wpc' = "timeout"
    /\ inq' = Append(inq, OPC)
    /\ UNCHANGED <<layer, running, outq, sent, completed>>

\* the read half of resource.query times out; the exception ends the run
OpcTimeout ==
    /\ layer = "opc" /\ wpc = "reading" /\ outq = <<>>
    /\ wpc' = "timeout"
    /\ UNCHANGED <<layer, inq, running, outq, sent, completed>>

\* the instrument starts on the next command of its input buffer
InstrStart ==
    /\ running = NoCmd /\ inq /= <<>>
    /\ running' = Head(inq)
    /\ inq' = Tail(inq)
    /\ UNCHANGED <<layer, wpc, outq, sent, completed>>

\* the instrument finishes the command it is executing; '*OPC?' puts 1
\* into the output buffer
InstrFinish ==
    /\ running /= NoCmd
    /\ running' = NoCmd
    /\ outq' = IF running = OPC THEN Append(outq, "1") ELSE outq
    /\ completed' = IF running \notin {OPC, WAI} THEN completed + 1
                    ELSE completed
    /\ UNCHANGED <<layer, wpc, inq, sent>>

InitSync ==
    /\ driver = "HP34401AD" /\ number = 0 /\ echo = FALSE
    /\ CallIdle
    /\ layer \in {"wai", "opc"}
    /\ wpc = "idle" /\ inq = <<>> /\ running = NoCmd /\ outq = <<>>
    /\ sent = 0 /\ completed = 0
    /\ QueryIdle
    /\ LifeIdle

NextSync ==
    \/ WaiWriteCmd /\ UNCHANGED <<callVars, queryVars, lifeVars, dacVars, ackVars, scopeVars>>
    \/ WaiWriteWai /\ UNCHANGED <<callVars, queryVars, lifeVars, dacVars, ackVars, scopeVars>>
    \/ WaiCmdTimeout /\ UNCHANGED <<callVars, queryVars, lifeVars, dacVars, ackVars, scopeVars>>
    \/ OpcWriteCmd /\ UNCHANGED <<callVars, queryVars, lifeVars, dacVars, ackVars, scopeVars>>
    \/ OpcRead /\ UNCHANGED <<callVars, queryVars, lifeVars, dacVars, ackVars, scopeVars>>
    \/ OpcTimeout /\ UNCHANGED <<callVars, queryVars, lifeVars, dacVars, ackVars, scopeVars>>
    \/ InstrStart /\ UNCHANGED <<callVars, queryVars, lifeVars, dacVars, ackVars, scopeVars>>
    \/ InstrFinish /\ UNCHANGED <<callVars, queryVars, lifeVars, dacVars, ackVars, scopeVars>>

SpecSync == InitSync /\ [][NextSync]_vars

(***************************************************************************)
(* SpecQuery: two callers use query() on one session without any lock.     *)
(* resource.query is a write followed by a read; the instrument answers a  *)
(* query with one value line (here the id of the command) and a Fluke 45   *)
(* follows it with the prompt line '=>' (here 0).                          *)
(***************************************************************************)
Callers == {1, 2}

Other(c) == 3 - c

Prompt == 0

\* the lines the instrument puts into its output buffer for query k
Reply(drv, k) == IF drv = "Fluke45" THEN <<k, Prompt>> ELSE <<k>>

\* the reads query() performs: the one of resource.query and every read()
\* that follows it in the method
QueryReads(drv) == Len(DriverQuery(drv, NoCmd))

InQuery(c) == qpc[c] = "reading"

\* query(cmd) is entered: the write half of resource.query
QStart(c) ==
    /\ qpc[c] \in {"idle", "done"} /\ qn < MaxQueries
    /\ qn' = qn + 1
    /\ qcmd' = [qcmd EXCEPT ![c] = qn + 1]
    /\ qbuf' = qbuf \o Reply(qdrv, qn + 1)
    /\ qpc' = [qpc EXCEPT ![c] = "reading"]
    /\ qleft' = [qleft EXCEPT ![c] = QueryReads(qdrv)]
    /\ qover' = [qover EXCEPT ![c] = InQuery(Other(c)),
                              ![Other(c)] = @ \/ InQuery(Other(c))]
    /\ UNCHANGED <<qdrv, qval>>

\* the read half of resource.query: its result is what query() returns
QRead(c) ==
    /\ InQuery(c) /\ qleft[c] = QueryReads(qdrv) /\ qbuf /= <<>>
    /\ qval' = [qval EXCEPT ![c] = Head(qbuf)]
    /\ qbuf' = Tail(qbuf)
    /\ qleft' = [qleft EXCEPT ![c] = @ - 1]
    /\ qpc' = [qpc EXCEPT ![c] = IF qleft[c] = 1 THEN "done" ELSE @]
    /\ UNCHANGED <<qdrv, qcmd, qover, qn>>

\* Fluke45.query returning what the read after the query gets
QAckReadReturned(c) ==
    /\ InQuery(c) /\ qleft[c] < QueryReads(qdrv) /\ qbuf /= <<>>
    /\ qval' = [qval EXCEPT ![c] = Head(qbuf)]
    /\ qbuf' = Tail(qbuf)
    /\ qleft' = [qleft EXCEPT ![c] = @ - 1]
    /\ qpc' = [qpc EXCEPT ![c] = IF qleft[c] = 1 THEN "done" ELSE @]
    /\ UNCHANGED <<qdrv, qcmd, qover, qn>>

\* Fluke45.query: self.read() after the query, result discarded
QAckRead(c) ==
    /\ InQuery(c) /\ qleft[c] < QueryReads(qdrv) /\ qbuf /= <<>>
    /\ qbuf' = Tail(qbuf)
    /\ qleft' = [qleft EXCEPT ![c] = @ - 1]
    /\ qpc' = [qpc EXCEPT ![c] = IF qleft[c] = 1 THEN "done" ELSE @]
    /\ UNCHANGED <<qdrv, qval, qcmd, qover, qn>>

InitQuery ==
    /\ driver = "HP34401AD" /\ number = 0 /\ echo = FALSE
    /\ CallIdle
    /\ SyncIdle
    /\ qdrv \in Multimeters
    /\ qpc = [c \in Callers |-> "idle"]
    /\ qleft = [c \in Callers |-> 0]
    /\ qbuf = <<>>
    /\ qval = [c \in Callers |-> 0]
    /\ qcmd = [c \in Callers |-> 0]
    /\ qover = [c \in Callers |-> FALSE]
    /\ qn = 0
    /\ LifeIdle

NextQuery ==
    \/ \E c \in Callers : QStart(c) /\ UNCHANGED <<callVars, syncVars, lifeVars, dacVars, ackVars, scopeVars>>
    \/ \E c \in Callers : QRead(c) /\ UNCHANGED <<callVars, syncVars, lifeVars, dacVars, ackVars, scopeVars>>
    \/ \E c \in Callers : QAckRead(c) /\ UNCHANGED <<callVars, syncVars, lifeVars, dacVars, ackVars, scopeVars>>

SpecQuery == InitQuery /\ [][NextQuery]_vars

(***************************************************************************)
(* SpecLife: construction and close() of a parent object and the use of    *)
(* its sub-objects.  A constructor or close() is a list of statements;     *)
(* a statement yields [log, calls, err, subs]: the transport events, the   *)
(* methods called, the exception raised and the sub-objects put into the   *)
(* parent's __dict__.  RunAll runs statements in program order and stops   *)
(* at the first exception.                                                 *)
(***************************************************************************)
ParentClasses == {"HP34401AD", "Fluke45", "RTO6", "N6700B", "MS464xB", "E8267D"}

\* rm.open_resource(resource_name) / self.resource.close() as seen by pyvisa
ResourceOpen == [t |-> "open", cmd |-> NoCmd]

ResourceClose == [t |-> "close", cmd |-> NoCmd]

Stmt(l, c) == [log |-> l, calls |-> c, err |-> NoError, subs |-> {}]

Throw(c, e) == [log |-> <<>>, calls |-> c, err |-> e, subs |-> {}]

RECURSIVE RunAll(_)
RunAll(stmts) ==
    IF stmts = <<>> THEN Stmt(<<>>, <<>>)
    ELSE IF Head(stmts).err /= NoError THEN Head(stmts)
         ELSE LET r == RunAll(Tail(stmts))
              IN  [log |-> Head(stmts).log \o r.log,
                   calls |-> Head(stmts).calls \o r.calls,
                   err |-> r.err,
                   subs |-> Head(stmts).subs \cup r.subs]

\* the capability base class a concrete class is derived from
CapabilityBase(cls) ==
    CASE cls \in {"HP34401AD", "Fluke45"} -> "Multimeter"
      [] cls = "RTO6" -> "Oscilloscope"
      [] cls = "RTO6Channel" -> "InputChannel"
      [] cls = "RTO6Math" -> "Math"
      [] cls = "RTO6Measurement" -> "Measurement"
      [] cls = "E8267D" -> "SignalGenerator"
      [] cls = "E8267DOutput" -> "signal_generator.OutputChannel"
      [] cls = "N6700B" -> "PowerSupply"
      [] cls = "N6700BChannel" -> "power_supply.OutputChannel"
      [] cls = "MS464xB" -> "NetworkAnalyzer"
      [] cls = "MS464xBPort" -> "Port"

\* the members a capability base class declares with @abstractmethod
AbstractOf(base) ==
    CASE base = "Multimeter" ->
            {"function", "range", "rate", "trigger_source",
             "trigger_measurement", "remote", "return_to_local", "read_val"}
      [] base = "Oscilloscope" ->
            {"horizontal_position", "horizontal_range", "horizontal_reference",
             "horizontal_scale", "record_length", "resolution", "sample_rate",
             "trigger_source", "trigger_level", "trigger_coupling",
             "remote", "return_to_local"}
      [] base = "InputChannel" ->
            {"enable", "coupling", "vertical_position", "vertical_range",
             "vertical_scale"}
      [] base = "Math" ->
            {"enable", "expression", "vertical_range", "vertical_scale"}
      [] base = "Measurement" ->
            {"enable", "source1", "source2", "category", "main",
             "add_parameter", "statistics", "read_val"}
      [] base = "SignalGenerator" -> {}
      [] base = "signal_generator.OutputChannel" ->
            {"enable", "frequency", "power"}
      [] base = "PowerSupply" -> {"remote", "return_to_local"}
      [] base = "power_supply.OutputChannel" ->
            {"enable", "voltage", "current"}
      [] base = "NetworkAnalyzer" ->
            {"sweep_type", "start_frequency", "stop_frequency",
             "center_frequency", "frequency_span", "cw_frequency",
             "frequency_sweep_length", "snp_frequency_units",
             "snp_parameter_format", "set_marker", "get_marker",
             "read_marker", "remote", "return_to_local"}
      [] base = "Port" ->
            {"power", "power_sweep_start", "power_sweep_stop",
             "power_sweep_length"}

\* the properties and methods the body of a concrete class defines
DefinedIn(cls) ==
    CASE cls = "HP34401AD" ->
            {"function", "range", "rate", "trigger_source", "remote",
             "return_to_local", "trigger", "read_val", "measure", "close"}
      [] cls = "Fluke45" ->
            {"function", "function2", "range", "rate", "trigger_source",
             "val1", "remote", "return_to_local", "read_val", "write",
             "query"}
      [] cls = "RTO6" ->
            {"horizontal_position", "horizontal_range", "horizontal_reference",
             "horizontal_scale", "horizontal_scale_mode", "record_length",
             "resolution", "sample_rate", "trigger_source", "trigger_level",
             "trigger_coupling", "zoom", "remote", "return_to_local"}
      [] cls = "RTO6Channel" ->
            {"enable", "coupling", "vertical_position", "vertical_range",
             "vertical_scale"}
      [] cls = "RTO6Math" ->
            {"enable", "expression", "vertical_range", "vertical_scale"}
      [] cls = "RTO6Measurement" ->
            {"enable", "source1", "source2", "category", "main",
             "add_parameter", "statistics", "reset_statistics", "read_val"}
      [] cls = "E8267D" -> {}
      [] cls = "E8267DOutput" -> {"enable", "frequency", "power"}
      [] cls = "N6700B" -> {"remote", "return_to_local"}
      [] cls = "N6700BChannel" ->
            {"enable", "voltage", "current", "priority_mode",
             "positive_voltage_limit", "negative_voltage_limit",
             "positive_current_limit", "negative_current_limit",
             "voltage_reading", "current_reading"}
      [] cls = "MS464xB" ->
            {"sweep_type", "start_frequency", "stop_frequency",
             "center_frequency", "frequency_span", "cw_frequency",
             "frequency_sweep_length", "snp_frequency_units",
             "snp_parameter_format", "marker_format", "set_marker",
             "get_marker", "read_marker", "measure", "save_sweep",
             "remote", "return_to_local"}
      [] cls = "MS464xBPort" ->
            {"power", "power_sweep_start", "power_sweep_stop",
             "power_sweep_length"}

\* abstract members a concrete class leaves undefined
AbstractMethods(cls) == AbstractOf(CapabilityBase(cls)) \ DefinedIn(cls)

\* cls(...): ABCMeta refuses to instantiate a class with abstract members
Instantiate(cls) ==
    IF AbstractMethods(cls) /= {} THEN Throw(<<>>, "TypeError")
    ELSE Stmt(<<>>, <<>>)

\* number of positional parameters of PyVisaBase.__init__ besides self
PyVisaBaseParams == 2

\* super().__init__(...) reaching PyVisaBase.__init__ with nargs arguments
PyVisaBaseInit(nargs) ==
    IF nargs > PyVisaBaseParams THEN Throw(<<>>, "TypeError")
    ELSE Stmt(<<>>, <<>>)

\* PyVisaBase.open_resource
OpenResource == Stmt(<<ResourceOpen>>, <<"open_resource">>)

\* termination strings, query delays (s) and timeouts (ms) a caller may give
Terminations == {"\n", "\r\n"}

QueryDelays == {0, 1}

Timeouts == {0, 2000}

\* the keyword arguments of a driver constructor that reach the session
CtorArgs ==
    [write_termination : Terminations, read_termination : Terminations,
     query_delay : QueryDelays, timeout : Timeouts]

\* the attributes of a pyvisa resource that no driver has set
NoAttrs ==
    [write_termination |-> StrNone, read_termination |-> StrNone,
     query_delay |-> None, timeout |-> None]

\* PyVisaBase.open_resource(resource_name, query_delay, timeout,
\* read_termination, write_termination): the four property setters store
\* each parameter in the attribute of the resource with the same name
OpenResourceAttrs(query_delay, timeout, read_termination, write_termination) ==
    [read_termination |-> read_termination,
     write_termination |-> write_termination,
     query_delay |-> query_delay,
     timeout |-> timeout]

\* Instrument.__init__: self.open_resource(resource_name, query_delay,
\* timeout, write_termination, read_termination), arguments by position
InstrumentOpenResource(a) ==
    OpenResourceAttrs(a.query_delay, a.timeout,
                      a.write_termination, a.read_termination)

\* the attributes of the resource after a constructor that made calls cs
AttrsAfter(old, cs, a) ==
    IF \E i \in 1 .. Len(cs) : cs[i] = "open_resource"
    THEN InstrumentOpenResource(a) ELSE old

\* print(self.identity)
Identity(cls) == Stmt(DriverQuery(cls, Cmd("*IDN?", "", "")), <<>>)

\* Instrument.reset
Reset(cls) == Stmt(DriverWrite(cls, Cmd("*RST", "", "")), <<"reset">>)

\* Instrument.clear
Clear(cls) == Stmt(DriverWrite(cls, Cmd("*CLS", "", "")), <<"clear">>)

\* self.remote(), dispatched on the class of self; SignalGenerator and
\* E8267D define no remote
Remote(cls) ==
    CASE cls = "HP34401AD" ->
            Stmt(InstrumentWrite(Cmd("SYST:REM", "", "")), <<"remote">>)
      [] cls = "MS464xB" ->
            Stmt(PyVisaQuery(Cmd("*IDN?", "", "")), <<"remote">>)
      [] cls \in {"Fluke45", "RTO6", "N6700B"} -> Stmt(<<>>, <<"remote">>)
      [] cls = "E8267D" -> Throw(<<>>, "AttributeError")

\* self.return_to_local(), dispatched on the class of self
ReturnToLocal(cls) ==
    CASE cls = "HP34401AD" ->
            Stmt(InstrumentWrite(Cmd("SYST:LOC", "", "")), <<"return_to_local">>)
      [] cls = "MS464xB" ->
            Stmt(PyVisaWrite(Cmd("RTL", "", "")), <<"return_to_local">>)
      [] cls \in {"Fluke45", "RTO6", "N6700B"} ->
            Stmt(<<>>, <<"return_to_local">>)
      [] cls = "E8267D" -> Throw(<<>>, "AttributeError")

\* PyVisaBase.close
PyVisaClose == Stmt(<<ResourceClose>>, <<"resource.close">>)

\* a sub-object: its attribute name in the parent, its class, self.number
\* and self.resource
Sub(name, kind, n, res) ==
    [name |-> name, kind |-> kind, number |-> n, res |-> res]

\* self.__dict__[name] = kind(n, self.resource, ...); l is what the
\* constructor of the sub-object writes
NewSub(name, kind, n, l) ==
    [log |-> l, calls |-> <<>>, err |-> NoError,
     subs |-> {Sub(name, kind, n, 1)}]

\* the attribute names f'C{i}', f'M{i}', f'MG{i}', 'P1', 'P2'
SubName(prefix, i) == prefix \o NumStr(i)

\* RTO6Channel.__init__: channel 1 is disabled
RTO6ChannelInit(n) ==
    IF n = 1 THEN InstrumentWrite(Cmd("CHAN:STAT", NumStr(n), "OFF"))
    ELSE <<>>

\* last sub-unit numbers of the loops `for i in range(1, n)`
RTO6Channels == 4

RTO6Maths == 8

RTO6Measurements == 10

N6700BChannels == 3

\* the sub-objects the class docstrings announce (E8267D: the attribute
\* its constructor assigns)
Documented(cls) ==
    CASE cls = "RTO6" ->
            {SubName("C", i) : i \in 1 .. 4} \cup {SubName("M", i) : i \in 1 .. 8}
            \cup {SubName("MG", i) : i \in 1 .. 10}
      [] cls = "N6700B" -> {SubName("C", i) : i \in 1 .. 4}
      [] cls = "MS464xB" -> {"P1", "P2"}
      [] cls = "E8267D" -> {"OUT"}
      [] OTHER -> {}

\* Instrument.__init__ after its super().__init__ call
InstrumentInitBody(cls) == <<OpenResource, Identity(cls)>>

\* the constructor of cls after the instantiation of the object and after
\* the call of PyVisaBase.__init__, which precede every other statement
InitBody(cls) ==
    InstrumentInitBody(cls) \o
    CASE cls \in Multimeters -> <<Reset(cls), Clear(cls), Remote(cls)>>
      [] cls = "RTO6" ->
            <<Reset(cls), Clear(cls), Remote(cls)>>
            \o [i \in 1 .. RTO6Channels |->
                  NewSub(SubName("C", i), "RTO6Channel", i, RTO6ChannelInit(i))]
            \o [i \in 1 .. RTO6Maths |->
                  NewSub(SubName("M", i), "RTO6Math", i, <<>>)]
            \o [i \in 1 .. RTO6Measurements |->
                  NewSub(SubName("MG", i), "RTO6Measurement", i, <<>>)]
      [] cls = "N6700B" ->
            [i \in 1 .. N6700BChannels |->
                  NewSub(SubName("C", i), "N6700BChannel", i, <<>>)]
      [] cls = "MS464xB" ->
            << NewSub("P1", "MS464xBPort", 1, <<>>),
               NewSub("P2", "MS464xBPort", 2, <<>>),
               Stmt(InstrumentWrite(Cmd("LANG NATIVE", "", "")), <<>>) >>
      [] cls = "E8267D" ->
            << Reset(cls), Clear(cls), Remote(cls),
               NewSub("OUT", "E8267DOutput", 1, <<>>) >>

\* cls(resource_name, ...) as Python executes it: the object is
\* instantiated, Instrument.__init__ passes (None, echo, name) to
\* PyVisaBase.__init__, then the rest of the constructor runs
Construct(cls) ==
    RunAll(<<Instantiate(cls), PyVisaBaseInit(3)>> \o InitBody(cls))

\* what the statements of the constructor build when they are all reached
Built(cls) == RunAll(InitBody(cls))

\* obj.close(), dispatched on the class of obj
Close(cls) ==
    RunAll(CASE cls = "HP34401AD" ->
                  <<ReturnToLocal(cls), ReturnToLocal(cls), PyVisaClose>>
             [] cls \in {"Fluke45", "MS464xB"} ->
                  <<ReturnToLocal(cls), PyVisaClose>>
             [] OTHER -> <<PyVisaClose>>)

\* sub.enable = value (MS464xBPort: sub.power = value) of a sub-object
SubWriteCmd(sub, v) ==
    CASE sub.kind = "RTO6Channel" ->
            Cmd("CHAN:STAT", NumStr(sub.number), IF v = 0 THEN "OFF" ELSE "ON")
      [] sub.kind = "RTO6Math" ->
            Cmd("CALC:MATH:STAT", NumStr(sub.number),
                IF v = 0 THEN "OFF" ELSE "ON")
      [] sub.kind = "RTO6Measurement" ->
            Cmd("MEAS", NumStr(sub.number), IF v = 0 THEN "OFF" ELSE "ON")
      [] sub.kind = "N6700BChannel" ->
            Cmd("OUTP", NumStr(sub.number), IF v = 0 THEN "OFF" ELSE "ON")
      [] sub.kind = "MS464xBPort" ->
            Cmd(":SOUR" \o NumStr(VnaChannel) \o ":POW:PORT",
                NumStr(sub.number), NumStr(v))
      [] sub.kind = "E8267DOutput" ->
            Cmd("OUTPUT:STAT", "", IF v = 0 THEN "OFF" ELSE "ON")

\* the state of the pyvisa resource after the events of a log
RECURSIVE SessionAfter(_, _)
SessionAfter(st, l) ==
    IF l = <<>> THEN st
    ELSE SessionAfter(CASE Head(l).t = "open" -> "open"
                        [] Head(l).t = "close" -> "closed"
                        [] OTHER -> st,
                      Tail(l))

\* the variables of the other specifications that SpecLife does not use
LifeRest ==
    /\ ScopeIdle
    /\ AckIdle
    /\ DacIdle
    /\ number = 0 /\ echo = FALSE
    /\ _function = NoneStr /\ _trigger_measurement = FALSE
    /\ trigger_src = "unset" /\ scope_source = "CHAN1"
    /\ prev = [call |-> NoCall, log |-> <<>>, err |-> NoError]
    /\ SyncIdle
    /\ QueryIdle

\* either no object exists yet, or the object is the one the statements of
\* its constructor build, with the commands of the constructor as the
\* observed call
InitLife ==
    /\ driver \in ParentClasses
    /\ LifeRest
    /\ given \in CtorArgs
    /\ \/ /\ life = "new" /\ resource = 0 /\ session = "none" /\ subs = {}
          /\ attrs = NoAttrs
          /\ last = NoCall /\ log = <<>> /\ calls = <<>> /\ raised = NoError
       \/ /\ Built(driver).err = NoError
          /\ life = "constructed" /\ resource = 1
          /\ session = SessionAfter("none", Built(driver).log)
          /\ subs = Built(driver).subs
          /\ attrs = AttrsAfter(NoAttrs, Built(driver).calls, given)
          /\ last = Call("__init__", <<driver>>, <<>>)
          /\ log = Built(driver).log
          /\ calls = Built(driver).calls
          /\ raised = NoError

LifeUnchanged ==
    UNCHANGED <<driver, number, echo, _function, _trigger_measurement,
                trigger_src, scope_source, prev>>

\* obj = cls(resource_name)
LConstruct ==
    /\ life = "new"
    /\ LET r == Construct(driver)
       IN  /\ log' = r.log
           /\ calls' = r.calls
           /\ raised' = r.err
           /\ life' = IF r.err = NoError THEN "constructed" ELSE "failed"
           /\ resource' = IF r.err = NoError THEN 1 ELSE 0
           /\ session' = SessionAfter(session, r.log)
           /\ subs' = IF r.err = NoError THEN r.subs ELSE {}
           /\ attrs' = AttrsAfter(attrs, r.calls, given)
    /\ UNCHANGED given
    /\ last' = Call("__init__", <<driver>>, <<>>)
    /\ LifeUnchanged

\* obj.close()
LClose ==
    /\ life = "constructed" /\ session = "open" /\ last = NoCall
    /\ LET r == Close(driver)
       IN  /\ log' = r.log
           /\ calls' = r.calls
           /\ raised' = r.err
           /\ session' = SessionAfter(session, r.log)
    /\ life' = "closed"
    /\ last' = Call("close", <<driver>>, <<>>)
    /\ UNCHANGED <<resource, subs, given, attrs>>
    /\ LifeUnchanged

\* obj.<sub>.enable = v, or obj.<sub>.power = v
LSubWrite ==
    /\ life = "constructed" /\ session = "open" /\ last = NoCall
    /\ \E sub \in subs, v \in Vals :
        /\ log' = InstrumentWrite(SubWriteCmd(sub, v))
        /\ last' = Call("sub.write", <<sub.name>>, <<v>>)
    /\ calls' = <<>>
    /\ raised' = NoError
    /\ UNCHANGED <<life, resource, session, subs, given, attrs>>
    /\ LifeUnchanged

\* obj.<sub>.close(): PyVisaBase.close, which Channel inherits
LSubClose ==
    /\ life = "constructed" /\ session = "open" /\ last = NoCall
    /\ \E sub \in subs :
        last' = Call("sub.close", <<sub.name>>, <<>>)
    /\ log' = PyVisaClose.log
    /\ calls' = PyVisaClose.calls
    /\ raised' = NoError
    /\ session' = SessionAfter(session, PyVisaClose.log)
    /\ UNCHANGED <<life, resource, subs, given, attrs>>
    /\ LifeUnchanged

\* the record of the observed call is cleared
LForget ==
    /\ last /= NoCall
    /\ last' = NoCall
    /\ log' = <<>>
    /\ calls' = <<>>
    /\ raised' = NoError
    /\ UNCHANGED <<life, resource, session, subs, given, attrs>>
    /\ LifeUnchanged

NextLife ==
    \/ LConstruct /\ UNCHANGED <<syncVars, queryVars, dacVars, ackVars, scopeVars>>
    \/ LClose /\ UNCHANGED <<syncVars, queryVars, dacVars, ackVars, scopeVars>>
    \/ LSubWrite /\ UNCHANGED <<syncVars, queryVars, dacVars, ackVars, scopeVars>>
    \/ LSubClose /\ UNCHANGED <<syncVars, queryVars, dacVars, ackVars, scopeVars>>
    \/ LForget /\ UNCHANGED <<syncVars, queryVars, dacVars, ackVars, scopeVars>>

SpecLife == InitLife /\ [][NextLife]_vars

(***************************************************************************)
(* SpecDac: the serial DAC module (src/dac.py).  A state holds one call of *)
(* modbus_crc16, DAC.write or DAC.set_volt with its arguments; the step    *)
(* executes the call.  Python integers are unbounded, so the bit           *)
(* operations are defined on naturals of any size.                         *)
(***************************************************************************)
\* longest byte string drawn from SampleBytes
MaxLen == 3

\* a ^ b on non-negative integers
RECURSIVE BitXor(_, _)
BitXor(a, b) ==
    IF a = 0 THEN b
    ELSE IF b = 0 THEN a
    ELSE 2 * BitXor(a \div 2, b \div 2) + ((a + b) % 2)

\* a & b on non-negative integers
RECURSIVE BitAnd(_, _)
BitAnd(a, b) ==
    IF a = 0 \/ b = 0 THEN 0
    ELSE 2 * BitAnd(a \div 2, b \div 2) + ((a % 2) * (b % 2))

\* a >> 1
Shr1(a) == a \div 2

\* the default of the parameter poly
Poly == 40961

\* the initial value of the accumulator, 0xFFFF
CrcInit == 65535

\* one pass of the body of `for _ in range(8)` that leaves the low bit
\* out of the decision and always shifts only
CrcStepShiftOnly(crc, poly) == Shr1(crc)

\* one pass of the body of `for _ in range(8)`
CrcStep(crc, poly) ==
    IF BitAnd(crc, 1) /= 0 THEN BitXor(Shr1(crc), poly) ELSE Shr1(crc)

\* `for _ in range(8)`: n passes remain
RECURSIVE CrcBits(_, _, _)
CrcBits(crc, poly, n) ==
    IF n = 0 THEN crc ELSE CrcBits(CrcStep(crc, poly), poly, n - 1)

\* `for byte in data`: crc ^= byte, then the eight passes.  The accumulator
\* is a non-negative integer after every byte; the test has it evaluated
\* before the next byte is taken.
RECURSIVE CrcBytes(_, _, _)
CrcBytes(crc, poly, data) ==
    IF data = <<>> THEN crc
    ELSE LET next == CrcBits(BitXor(crc, Head(data)), poly, 8)
         IN  IF next \in Nat THEN CrcBytes(next, poly, Tail(data)) ELSE next

modbus_crc16(data) == CrcBytes(CrcInit, Poly, data)

\* int.to_bytes(2, 'little') and int.to_bytes(2, 'big') of 0 <= v < 2^16
ToBytesLittle(v) == <<v % 256, v \div 256>>

ToBytesBig(v) == <<v \div 256, v % 256>>

\* int.to_bytes(2, ...) raises OverflowError outside 0 .. 2^16 - 1
Fits16(v) == v >= 0 /\ v < 65536

\* the result of a DAC call: the frames written and the exception raised
DacResult(frames, e) == [port |-> frames, err |-> e]

\* DAC.write(data) with the checksum bytes most significant byte first
DacWriteBigEndianCrc(data) ==
    LET msg == <<1, 6>> \o data
        crc == modbus_crc16(msg)
    IN  IF Fits16(crc) THEN DacResult(<<msg \o ToBytesBig(crc)>>, NoError)
        ELSE DacResult(<<>>, "OverflowError")

\* DAC.write(data)
DacWrite(data) ==
    LET msg == <<1, 6>> \o data
        crc == modbus_crc16(msg)
    IN  IF Fits16(crc) THEN DacResult(<<msg \o ToBytesLittle(crc)>>, NoError)
        ELSE DacResult(<<>>, "OverflowError")

\* DAC.set_volt(channel, volt) with the millivolt bytes low byte first
DacSetVoltLittleEndian(channel, volt) ==
    LET chl == BitAnd(channel + 9, 255)
    IN  IF Fits16(volt) THEN DacWrite(<<0, chl>> \o ToBytesLittle(volt))
        ELSE DacResult(<<>>, "OverflowError")

\* DAC.set_volt(channel, volt)
DacSetVolt(channel, volt) ==
    LET chl == BitAnd(channel + 9, 255)
    IN  IF Fits16(volt) THEN DacWrite(<<0, chl>> \o ToBytesBig(volt))
        ELSE DacResult(<<>>, "OverflowError")

\* byte values the byte strings of the calls are made of
SampleBytes == {0, 1, 128, 255}

RECURSIVE SeqsUpTo(_, _)
SeqsUpTo(S, n) ==
    IF n = 0 THEN {<<>>}
    ELSE LET shorter == SeqsUpTo(S, n - 1)
         IN  shorter \cup {Append(q, b) : q \in shorter, b \in S}

\* the ASCII string '123456789'
CheckString == <<49, 50, 51, 52, 53, 54, 55, 56, 57>>

\* byte strings given to modbus_crc16 and DAC.write: every string of at most
\* MaxLen sample bytes, every single byte, and the check string
ByteStrings ==
    SeqsUpTo(SampleBytes, MaxLen) \cup {<<b>> : b \in 0 .. 255}
        \cup {CheckString}

\* channel and millivolt arguments given to DAC.set_volt
DacChannels == 0 .. 7 \cup {247}

DacVolts == {-1, 0, 1, 255, 256, 1000, 4660, 32768, 65535, 65536}

DacCalls ==
    [op : {"modbus_crc16", "write"}, data : ByteStrings]
        \cup [op : {"set_volt"}, channel : DacChannels, volt : DacVolts]

\* the variables of the other specifications that SpecDac does not use
DacRest ==
    /\ ScopeIdle
    /\ AckIdle
    /\ driver = "HP34401AD" /\ number = 0 /\ echo = FALSE
    /\ CallIdle
    /\ SyncIdle
    /\ QueryIdle
    /\ life = "constructed" /\ resource = 1 /\ session = "open" /\ subs = {}
    /\ given = [write_termination |-> "\n", read_termination |-> "\n",
                query_delay |-> 0, timeout |-> 0]
    /\ attrs = given

InitDac ==
    /\ DacRest
    /\ dac_call \in DacCalls
    /\ dac_pc = "pending" /\ dac_ret = None
    /\ dac_port = <<>> /\ dac_reads = 0 /\ dac_err = NoError

\* crc = modbus_crc16(data)
DoCrc ==
    /\ dac_pc = "pending" /\ dac_call.op = "modbus_crc16"
    /\ dac_ret' = modbus_crc16(dac_call.data)
    /\ dac_pc' = "returned"
    /\ UNCHANGED <<dac_call, dac_port, dac_reads, dac_err>>

\* dac.write(data)
DoDacWrite ==
    /\ dac_pc = "pending" /\ dac_call.op = "write"
    /\ LET r == DacWrite(dac_call.data)
       IN  dac_port' = r.port /\ dac_err' = r.err
    /\ dac_pc' = "returned"
    /\ UNCHANGED <<dac_call, dac_ret, dac_reads>>

\* dac.set_volt(channel, volt)
DoSetVolt ==
    /\ dac_pc = "pending" /\ dac_call.op = "set_volt"
    /\ LET r == DacSetVolt(dac_call.channel, dac_call.volt)
       IN  dac_port' = r.port /\ dac_err' = r.err
    /\ dac_pc' = "returned"
    /\ UNCHANGED <<dac_call, dac_ret, dac_reads>>

NextDac ==
    \/ DoCrc /\ UNCHANGED <<callVars, syncVars, queryVars, lifeVars, ackVars, scopeVars>>
    \/ DoDacWrite /\ UNCHANGED <<callVars, syncVars, queryVars, lifeVars, ackVars, scopeVars>>
    \/ DoSetVolt /\ UNCHANGED <<callVars, syncVars, queryVars, lifeVars, ackVars, scopeVars>>

SpecDac == InitDac /\ [][NextDac]_vars

(***************************************************************************)
(* SpecAck: write() and query() calls of one caller on a Fluke45.  The     *)
(* instrument answers every command line it receives with one prompt line  *)
(* and puts the value line of a query before the prompt.  A step is one    *)
(* whole call: the transport events of the call are played against the     *)
(* output buffer in program order.                                         *)
(***************************************************************************)
\* number of calls made in one dialogue
MaxCalls == 8

\* the lines the Fluke 45 puts out for the command line of event e
AckLines(e, k) ==
    CASE e.t = "write" -> <<Prompt>>
      [] e.t = "query" -> Reply("Fluke45", k)
      [] OTHER -> <<>>

\* the result of playing events: the buffer, the lines read, the exception
Played(buf, got, e) == [buf |-> buf, got |-> got, err |-> e]

\* the transport events of a call played in order: a write or the write
\* half of a query makes the instrument answer, a read or the read half of
\* a query takes the oldest line, or times out on an empty buffer
RECURSIVE Play(_, _, _, _)
Play(buf, got, events, k) ==
    IF events = <<>> THEN Played(buf, got, NoError)
    ELSE LET e == Head(events)
             filled == buf \o AckLines(e, k)
         IN  IF e.t = "write" THEN Play(filled, got, Tail(events), k)
             ELSE IF filled = <<>> THEN Played(filled, got, "VisaIOError")
             ELSE Play(Tail(filled), Append(got, Head(filled)),
                       Tail(events), k)

\* commands the calls are made with
AckWriteCmds == {Cmd("*CLS", "", ""), Cmd("TRIGGER", "", "3")}

AckQueryCmds == {Cmd("VAL?", "", ""), Cmd("FUNC1?", "", "")}

InitAck ==
    /\ driver = "Fluke45" /\ number = 0 /\ echo = FALSE
    /\ CallIdle
    /\ SyncIdle
    /\ QueryIdle
    /\ DacIdle
    /\ ScopeIdle
    /\ life = "constructed" /\ resource = 1 /\ session = "open" /\ subs = {}
    /\ given = [write_termination |-> "\n", read_termination |-> "\n",
                query_delay |-> 0, timeout |-> 0]
    /\ attrs = given
    /\ abuf = <<>> /\ aret = None /\ an = 0 /\ aerr = NoError
    /\ alast = [op |-> "none", cmd |-> NoCmd, id |-> 0]

\* fluke45.write(cmd)
AckWrite ==
    /\ an < MaxCalls /\ aerr = NoError
    /\ \E cmd \in AckWriteCmds :
        LET r == Play(abuf, <<>>, Fluke45Write(cmd), an + 1)
        IN  /\ abuf' = r.buf
            /\ aerr' = r.err
            /\ aret' = None
            /\ alast' = [op |-> "write", cmd |-> cmd, id |-> an + 1]
    /\ an' = an + 1

\* val = fluke45.query(cmd): the value is what resource.query read
AckQuery ==
    /\ an < MaxCalls /\ aerr = NoError
    /\ \E cmd \in AckQueryCmds :
        LET r == Play(abuf, <<>>, Fluke45Query(cmd), an + 1)
        IN  /\ abuf' = r.buf
            /\ aerr' = r.err
            /\ aret' = IF r.err = NoError THEN r.got[1] ELSE None
            /\ alast' = [op |-> "query", cmd |-> cmd, id |-> an + 1]
    /\ an' = an + 1

NextAck ==
    \/ AckWrite /\ UNCHANGED <<callVars, syncVars, queryVars, lifeVars, dacVars, scopeVars>>
    \/ AckQuery /\ UNCHANGED <<callVars, syncVars, queryVars, lifeVars, dacVars, scopeVars>>

SpecAck == InitAck /\ [][NextAck]_vars

(***************************************************************************)
(* SpecScope: an RTO6 and its sub-objects C<n>, M<n>, MG<n>.  A step is    *)
(* one property assignment, property read or setup() call; the instrument  *)
(* stores the argument of every command it receives under the header and   *)
(* the numeric suffix of the command, and answers a query with the         *)
(* setting stored under the header of the query.                           *)
(***************************************************************************)
\* number of calls made in one dialogue
MaxScopeCalls == 3

\* the sub-unit numbers the dialogue uses
ScopeUnits == {1, 2}

\* headers of the settings without and with a numeric suffix
TimebaseHeaders == {"TIM:REF", "TIM:HOR:POS"}

UnitHeaders ==
    {"CHAN:SCAL", "CALC:MATH:VERT:SCAL", "MEAS", "MEAS:CAT", "MEAS:MAIN",
     "MEAS:FSRC"}

ScopeKey(name, unit) == [name |-> name, unit |-> unit]

ScopeKeys ==
    {ScopeKey(h, "") : h \in TimebaseHeaders}
        \cup {ScopeKey(h, NumStr(u)) : h \in UnitHeaders, u \in ScopeUnits}

\* the setting a command addresses: a header sent without its numeric
\* suffix selects suffix 1
Addressed(cmd) ==
    ScopeKey(cmd.name,
             IF cmd.idx = "" /\ cmd.name \in UnitHeaders THEN "1" ELSE cmd.idx)

\* the instrument takes the written commands of a log
RECURSIVE Receive(_, _)
Receive(store, l) ==
    IF l = <<>> THEN store
    ELSE LET e == Head(l)
             next == IF e.t = "write" /\ Addressed(e.cmd) \in DOMAIN store
                     THEN [store EXCEPT ![Addressed(e.cmd)] = e.cmd.arg]
                     ELSE store
         IN  Receive(next, Tail(l))

\* float(reply) of a reply the instrument has formatted
StrNum(reply) ==
    CASE reply = "0" -> 0
      [] reply = "1" -> 1
      [] reply = "2" -> 2
      [] OTHER -> None

\* RTO6Measurement.SOURCES
RTO6_MEAS_SOURCES ==
    [s \in {"C1", "C2", "C3", "C4", "M1", "M2", "M3", "M4", "M5", "M6", "M7",
            "M8"} |->
        IF s \in {"C1", "C2", "C3", "C4"} THEN s \o "W1" ELSE s]

\* the header a property setter of class kind with self.number = n writes
SetterCmd(kind, n, prop, arg) ==
    CASE kind = "RTO6" /\ prop = "horizontal_position" ->
            Cmd("TIM:HOR:POS", "", arg)
      [] kind = "RTO6" /\ prop = "horizontal_reference" ->
            Cmd("TIM:REF", "", arg)
      [] kind = "RTO6Channel" /\ prop = "vertical_scale" ->
            Cmd("CHAN:SCAL", NumStr(n), arg)
      [] kind = "RTO6Math" /\ prop = "vertical_scale" ->
            Cmd("CALC:MATH:VERT:SCAL", NumStr(n), arg)
      [] kind = "RTO6Measurement" /\ prop = "enable" ->
            Cmd("MEAS", NumStr(n), arg)
      [] kind = "RTO6Measurement" /\ prop = "category" ->
            Cmd("MEAS:CAT", "", arg)
      [] kind = "RTO6Measurement" /\ prop = "main" ->
            Cmd("MEAS:MAIN", "", arg)
      [] kind = "RTO6Measurement" /\ prop = "source1" ->
            Cmd("MEAS:FSRC", NumStr(n), arg)

\* the setting a property getter of the RTO6 queries
GetterKey(prop) ==
    CASE prop = "horizontal_position" -> ScopeKey("TIM:HOR:POS", "")
      [] prop = "horizontal_reference" -> ScopeKey("TIM:HOR:POS", "")

\* obj.<prop> = value
ScopeSet(kind, n, prop, arg) == Wr(kind, SetterCmd(kind, n, prop, arg))

\* RTO6Measurement.source1 setter
MeasSetSource1(n, value) ==
    IF value \in DOMAIN RTO6_MEAS_SOURCES
    THEN ScopeSet("RTO6Measurement", n, "source1", RTO6_MEAS_SOURCES[value])
    ELSE Raise("KeyError")

\* Measurement.setup(main, source1, source2=None, category, statistics=False)
\* on an RTO6Measurement with self.number = n
MeasurementSetup(n, main, source1, category) ==
    Chain(<<
        ScopeSet("RTO6Measurement", n, "enable", "ON"),
        IF category /= StrNone /\ category /= ""
        THEN ScopeSet("RTO6Measurement", n, "category", category)
        ELSE Skip,
        ScopeSet("RTO6Measurement", n, "main", main),
        MeasSetSource1(n, source1) >>)

\* argument values of the calls
ScopeNums == {0, 1}

Categories == {"AMPT", "EYEJ"}

MainParameters == {"HIGH", "LOW"}

InitScope ==
    /\ driver = "RTO6" /\ number = 0 /\ echo = FALSE
    /\ CallIdle
    /\ SyncIdle
    /\ QueryIdle
    /\ DacIdle
    /\ AckIdle
    /\ life = "constructed" /\ resource = 1 /\ session = "open" /\ subs = {}
    /\ given = [write_termination |-> "\n", read_termination |-> "\n",
                query_delay |-> 0, timeout |-> 0]
    /\ attrs = given
    /\ sc_hist = <<>>
    /\ sc_store = [k \in ScopeKeys |->
                     IF k.name \in {"MEAS:CAT", "MEAS:MAIN", "MEAS:FSRC"}
                     THEN "DFLT" ELSE "0"]
    /\ sc_before = sc_store
    /\ sc_log = <<>> /\ sc_ret = None /\ sc_err = NoError

\* the effect of a call c with result r of the driver
ScopeEffect(c, r) ==
    /\ sc_hist' = Append(sc_hist, c)
    /\ sc_log' = r.log
    /\ sc_err' = r.err
    /\ sc_before' = sc_store
    /\ sc_store' = Receive(sc_store, r.log)

\* rto.horizontal_position = v, rto.horizontal_reference = v
ScopeAssign ==
    /\ Len(sc_hist) < MaxScopeCalls
    /\ \E prop \in {"horizontal_position", "horizontal_reference"},
          v \in ScopeNums :
        ScopeEffect(Call("set", <<"RTO6", prop>>, <<0, v>>),
                    ScopeSet("RTO6", 0, prop, NumStr(v)))
    /\ sc_ret' = None

\* rto.horizontal_position, rto.horizontal_reference
ScopeRead ==
    /\ Len(sc_hist) < MaxScopeCalls
    /\ \E prop \in {"horizontal_position", "horizontal_reference"} :
        /\ ScopeEffect(Call("get", <<"RTO6", prop>>, <<0>>),
                       [log |-> PyVisaQuery(Cmd(GetterKey(prop).name \o "?",
                                                "", "")),
                        err |-> NoError])
        /\ sc_ret' = StrNum(sc_store[GetterKey(prop)])

\* rto.C<n>.vertical_scale = v, rto.M<n>.vertical_scale = v
SubAssignScale ==
    /\ Len(sc_hist) < MaxScopeCalls
    /\ \E kind \in {"RTO6Channel", "RTO6Math"}, n \in ScopeUnits,
          v \in ScopeNums :
        ScopeEffect(Call("set", <<kind, "vertical_scale">>, <<n, v>>),
                    ScopeSet(kind, n, "vertical_scale", NumStr(v)))
    /\ sc_ret' = None

\* rto.MG<n>.category = value
MeasAssignCategory ==
    /\ Len(sc_hist) < MaxScopeCalls
    /\ \E n \in ScopeUnits, v \in Categories :
        ScopeEffect(Call("set", <<"RTO6Measurement", "category", v>>, <<n>>),
                    ScopeSet("RTO6Measurement", n, "category", v))
    /\ sc_ret' = None

\* rto.MG<n>.main = value
MeasAssignMain ==
    /\ Len(sc_hist) < MaxScopeCalls
    /\ \E n \in ScopeUnits, v \in MainParameters :
        ScopeEffect(Call("set", <<"RTO6Measurement", "main", v>>, <<n>>),
                    ScopeSet("RTO6Measurement", n, "main", v))
    /\ sc_ret' = None

\* rto.MG<n>.setup(main, source1, category=category)
MeasSetup ==
    /\ Len(sc_hist) < MaxScopeCalls
    /\ \E n \in ScopeUnits, m \in MainParameters, src \in {"C1", "bogus"},
          c \in Categories \cup {StrNone} :
        ScopeEffect(Call("setup", <<"RTO6Measurement", m, src, c>>, <<n>>),
                    MeasurementSetup(n, m, src, c))
    /\ sc_ret' = None

NextScope ==
    \/ ScopeAssign /\ UNCHANGED <<callVars, syncVars, queryVars, lifeVars, dacVars, ackVars>>
    \/ ScopeRead /\ UNCHANGED <<callVars, syncVars, queryVars, lifeVars, dacVars, ackVars>>
    \/ SubAssignScale /\ UNCHANGED <<callVars, syncVars, queryVars, lifeVars, dacVars, ackVars>>
    \/ MeasAssignCategory /\ UNCHANGED <<callVars, syncVars, queryVars, lifeVars, dacVars, ackVars>>
    \/ MeasAssignMain /\ UNCHANGED <<callVars, syncVars, queryVars, lifeVars, dacVars, ackVars>>
    \/ MeasSetup /\ UNCHANGED <<callVars, syncVars, queryVars, lifeVars, dacVars, ackVars>>

SpecScope == InitScope /\ [][NextScope]_vars

(***************************************************************************)
(* Properties.                                                             *)
(***************************************************************************)
Range(f) == {f[x] : x \in DOMAIN f}

\* what a command sent by a multimeter driver is about
Kind(cmd) ==
    CASE cmd.name \in {"FUNC"} \cup Range(FLUKE_FUNCS) -> "function"
      [] cmd.name \in {":NPLC", "RATE"} -> "rate"
      [] cmd.name \in {":RANG", "RANGE"} -> "range"
      [] cmd.name \in {"TRIG:SOUR", "TRIGGER"} -> "trigger_source"
      [] cmd.name \in {"READ?", "VAL?"} -> "read"
      [] cmd.name = "*TRG" -> "trigger"
      [] OTHER -> "other"

Kinds(l) == [i \in 1 .. Len(l) |-> Kind(l[i])]

IsPrefix(a, b) == Len(a) <= Len(b) /\ a = SubSeq(b, 1, Len(a))

\* C1: when write() has returned, the instrument has executed the command
\* that call wrote (a timed-out call does not return, it raises), so no
\* command is issued while an earlier one is still executing.
SynchronizedWrite == wpc = "returned" => completed = sent

MeasureTriggersOnBus ==
    last.op = "measure" =>
        /\ trigger_src = "bus" => calls = <<"trigger", "read_val">>
        /\ trigger_src \in {"internal", "external"} => calls = <<"read_val">>

\* C4: the trigger_measurement flag is true exactly when the most recently
\* configured trigger source is bus.
TriggerFlagDerived ==
    trigger_src \in {"internal", "external", "bus"} =>
        (_trigger_measurement <=> trigger_src = "bus")

\* C5: setup() sets the echo flag, then sends the function, rate, range and
\* trigger-source commands in that order, each once; a call that raises has
\* sent a proper prefix of them, so the function command always comes
\* first, and on the HP34401AD the rate and range commands carry the
\* function given to this call.
SetupAppliesInOrder ==
    last.op = "setup" =>
        LET sentcmds == SentCmds(log)
            order == <<"function", "rate", "range", "trigger_source">>
        IN  /\ echo = (last.num = <<1>>)
            /\ IsPrefix(Kinds(sentcmds), order)
            /\ (raised = NoError <=> Kinds(sentcmds) = order)
            /\ \A i \in 1 .. Len(sentcmds) :
                  driver = "HP34401AD" /\ i \in {2, 3}
                      => sentcmds[i].idx = last.str[1]

\* a setup() of an HP34401AD has returned without error
SetupReturned ==
    last.op = "setup" /\ raised = NoError /\ driver = "HP34401AD"

\* the scenario of C6: setup('VOLT:DC', 'slow', '10V', 'internal') has
\* returned and measure() was called next
InScenario ==
    /\ last.op = "measure"
    /\ prev.call.op = "setup"
    /\ prev.call.str = <<"VOLT:DC", "slow", "10V", "internal">>

\* C6 as stated: the commands of the scenario are function, range, rate,
\* trigger source and one read, in that order.
ScenarioRangeBeforeRate ==
    InScenario =>
        Kinds(SentCmds(prev.log \o log))
            = <<"function", "range", "rate", "trigger_source", "read">>

\* C6 amended: the commands of the scenario are function, rate, range,
\* trigger source and one read, in that order, with no trigger command.
ScenarioRateBeforeRange ==
    InScenario =>
        /\ Kinds(SentCmds(prev.log \o log))
             = <<"function", "rate", "range", "trigger_source", "read">>
        /\ calls = <<"read_val">>
        /\ driver = "HP34401AD" =>
             SentCmds(prev.log \o log)
               = << Cmd("FUNC", "", "VOLT:DC"), Cmd(":NPLC", "VOLT:DC", "0.2"),
                    Cmd(":RANG", "VOLT:DC", "10"),
                    Cmd("TRIG:SOUR", "", "internal"), Cmd("READ?", "", "") >>

\* the scenario has been run on an HP34401AD
ScenarioRun == InScenario /\ driver = "HP34401AD" /\ raised = NoError

\* C7: timebase() given both h_scale and h_range, or both sample_rate and
\* resolution, raises and has issued no write.
TimebaseRejectsBeforeWriting ==
    last.op = "timebase" =>
        LET sr == last.num[1]
            res == last.num[2]
            hs == last.num[4]
            hr == last.num[5]
        IN  (hs /= None /\ hr /= None) \/ (sr /= None /\ res /= None)
                => raised = "ValueError" /\ NumWrites(log) = 0

\* C8: config_freq_sweep() returns without error exactly when one complete
\* pair is given and the other pair not at all, given meaning not None.
FreqSweepAcceptsExactlyOnePair ==
    last.op = "config_freq_sweep" =>
        LET start == last.num[2]
            stop == last.num[3]
            center == last.num[4]
            span == last.num[5]
            startstop == /\ start /= None /\ stop /= None
                         /\ center = None /\ span = None
            centerspan == /\ center /= None /\ span /= None
                          /\ start = None /\ stop = None
        IN  raised = NoError <=> (startstop \/ centerspan)

\* C9: config_freq_sweep(), InputChannel.setup() and Math.setup() have issued
\* no write when they raise.
CompositeRejectsBeforeWriting ==
    /\ last.op \in {"config_freq_sweep", "InputChannel.setup", "Math.setup"}
    /\ raised /= NoError
    => NumWrites(log) = 0

\* C10: config_power_sweep() returns without error and has sent the sweep
\* type power, the CW frequency, then the power-sweep start, stop and
\* length of its port.
PowerSweepConfigured ==
    last.op = "config_power_sweep" =>
        /\ raised = NoError
        /\ SentCmds(log)
             = << Cmd(":SENS:SWE:TYP", NumStr(VnaChannel), "power"),
                  Cmd(":SENS:FREQ:CW", NumStr(VnaChannel), NumStr(last.num[2])),
                  PowerSweepCmd(number, "STAR", last.num[3]),
                  PowerSweepCmd(number, "STOP", last.num[4]),
                  PowerSweepCmd(number, "POIN", last.num[1]) >>

\* the command an optional timebase argument is applied with, none for None
Given(name, v) == IF v = None THEN <<>> ELSE <<Cmd(name, "", NumStr(v))>>

\* the arguments of the observed timebase() call are a valid combination:
\* not both h_scale and h_range, not both sample_rate and resolution
ValidTimebase ==
    /\ last.op = "timebase"
    /\ last.num[4] = None \/ last.num[5] = None
    /\ last.num[1] = None \/ last.num[2] = None

\* C11: timebase() on a valid argument combination returns without error
\* and has sent exactly the commands of the arguments given, each once and
\* each followed by its completion command, in the order horizontal scale
\* or range, sample rate or resolution, record length, horizontal
\* reference, horizontal position; an argument left None sends nothing.
TimebaseAppliesGivenInOrder ==
    ValidTimebase =>
        LET expected ==
                Given("TIM:SCAL", last.num[4]) \o Given("TIM:RANG", last.num[5])
                \o Given("ACQ:SRAT", last.num[1]) \o Given("ACQ:RES", last.num[2])
                \o Given("ACQ:POIN", last.num[3])
                \o Given("TIM:REF", last.num[6])
                \o Given("TIM:HOR:POS", last.num[7])
        IN  /\ raised = NoError
            /\ SentCmds(log) = expected
            /\ NumWrites(log) = 2 * Len(expected)

\* a valid timebase() call that gives one argument of each group and leaves
\* the other two None has sent five commands
TimebaseAllGroupsGiven ==
    /\ ValidTimebase
    /\ last.num[4] /= None /\ last.num[2] /= None /\ last.num[3] /= None
    /\ last.num[6] /= None /\ last.num[7] /= None
    /\ Len(SentCmds(log)) = 5

\* the commands written by a log, completion commands and queries left out
RECURSIVE Written(_)
Written(l) ==
    IF l = <<>> THEN <<>>
    ELSE IF Head(l).t = "write" /\ Head(l).cmd /= WAI
         THEN <<Head(l).cmd>> \o Written(Tail(l))
         ELSE Written(Tail(l))

\* C12: trigger_config(source, level, coupling) with a source of the
\* enumerated set returns without error and has written the source, the
\* level and the coupling command, in that order and each once; the level
\* command carries the index of the source given to this call (C1..C4 ->
\* 1..4, EXT -> 5), whatever source was selected before the call.
TriggerConfigInOrder ==
    last.op = "trigger_config" /\ last.str[1] \in DOMAIN RTO6_SOURCES =>
        LET chan == RTO6_SOURCES[last.str[1]]
        IN  /\ raised = NoError
            /\ Written(log)
                 = << Cmd("TRIG1:SOUR", "", chan),
                      Cmd("TRIG1:LEV", NumStr(RTO6_NUM_SOURCES[chan]),
                          NumStr(last.num[1])),
                      Cmd("TRIG1:ANED:COUP", "", last.str[2]) >>
            /\ NumWrites(log) = 6

\* trigger_config('C3', ...) has returned on a scope whose selected source
\* was EXT before the call, and its level command is indexed 3
TriggerConfigChangedSource ==
    /\ last.op = "trigger_config" /\ last.str[1] = "C3" /\ raised = NoError
    /\ last.str[3] = "EXT"
    /\ log[3] = Q(Cmd("TRIG1:SOUR?", "", ""))
    /\ Written(log)[2].idx = "3"
    /\ scope_source = "CHAN3"

\* the calls of reset, clear, remote and return_to_local among calls made
IsModeCall(c) == c \in {"reset", "clear", "remote", "return_to_local"}

ModeCalls(cs) == SelectSeq(cs, IsModeCall)

\* C13: a constructor call returns without error and has called reset,
\* clear and remote, once each and in that order.
ConstructorEntersRemote ==
    last.op = "__init__" =>
        /\ raised = NoError
        /\ ModeCalls(calls) = <<"reset", "clear", "remote">>

\* C14: close() of a parent object calls return_to_local() exactly once,
\* then releases the session, and sends nothing after the release.
CloseReturnsToLocalOnce ==
    last.op = "close" =>
        /\ calls = <<"return_to_local", "resource.close">>
        /\ log /= <<>> /\ log[Len(log)] = ResourceClose
        /\ \A i \in 1 .. Len(log) - 1 : log[i] /= ResourceClose

\* C16: a property assignment with a value outside the declared set of the
\* property raises KeyError and has sent nothing.
EnumValidationFailsFast ==
    /\ last.op \in {"function", "rate", "range", "trigger_source", "sweep_type"}
    /\ last.str[1] \notin Declared(last.op)
    => raised = "KeyError" /\ log = <<>>

\* C17: every sub-object of a constructed parent refers to the session of
\* its parent, and the session is still open after any call made on a
\* sub-object.
SubObjectsNeverCloseSession ==
    /\ life = "constructed" => \A sub \in subs : sub.res = resource
    /\ last.op \in {"sub.write", "sub.close"} => session = "open"

\* C18: a constructed parent has exactly the documented sub-objects, one
\* per name, and the number of each is the suffix of its name.
SubObjectsAsDocumented ==
    life = "constructed" =>
        /\ {sub.name : sub \in subs} = Documented(driver)
        /\ Cardinality(subs) = Cardinality(Documented(driver))
        /\ \A sub \in subs :
              \/ sub.name = "OUT"
              \/ \E p \in {"C", "M", "MG", "P"} :
                    sub.name = SubName(p, sub.number)

\* C19: a timeout ends the call at the statement it occurs in: the step that
\* times out sends nothing, and from then on the driver starts no write and
\* puts no further command on the bus (the instrument only works off what
\* it had received).
TimeoutPropagates ==
    [][/\ wpc' = "timeout" /\ wpc /= "timeout" => inq' = inq
       /\ wpc = "timeout" =>
            /\ wpc' = "timeout"
            /\ sent' = sent
            /\ Len(inq') <= Len(inq)]_vars

\* a write() has timed out on its '*OPC?' handshake and the instrument has
\* since executed the command of that call
TimedOutThenCompleted ==
    /\ layer = "opc" /\ wpc = "timeout" /\ sent > 1
    /\ completed = sent /\ running = NoCmd /\ inq = <<>>

SessionAttributesAsGiven ==
    life = "constructed" =>
        /\ attrs.write_termination = given.write_termination
        /\ attrs.read_termination = given.read_termination
        /\ attrs.query_delay = given.query_delay
        /\ attrs.timeout = given.timeout
\* C22: no construction of a shipped driver is rejected because the class
\* leaves an abstract member of its capability base class undefined, and
\* the class of every sub-object defines every abstract member too.
NoMissingMember ==
    /\ last.op = "__init__" /\ raised /= NoError =>
            AbstractMethods(driver) = {}
    /\ \A sub \in subs : AbstractMethods(sub.kind) = {}
\* the bits of a byte, least significant first
ByteBits(b) == [i \in 1 .. 8 |-> (b \div (2 ^ (i - 1))) % 2 = 1]

\* the exponents of the reflected generator polynomial x^16 + x^15 + x^2 + 1
PolyTaps == {0, 13, 15}

\* the shift register of the check, as the set of the exponents whose bit
\* is set, takes one message bit
RefShift(reg, bit) ==
    LET fb == (0 \in reg) /= bit
        sh == {i - 1 : i \in reg \ {0}}
    IN  IF fb THEN (sh \ PolyTaps) \cup (PolyTaps \ sh) ELSE sh

RECURSIVE RefBits(_, _, _)
RefBits(reg, bits, i) ==
    IF i > 8 THEN reg ELSE RefBits(RefShift(reg, bits[i]), bits, i + 1)

RECURSIVE RefBytes(_, _)
RefBytes(reg, data) ==
    IF data = <<>> THEN reg
    ELSE LET next == RefBits(reg, ByteBits(Head(data)), 1)
         IN  IF next \subseteq 0 .. 15 THEN RefBytes(next, Tail(data))
             ELSE next

RECURSIVE RegValue(_, _)
RegValue(reg, i) ==
    IF i > 15 THEN 0
    ELSE (IF i \in reg THEN 2 ^ i ELSE 0) + RegValue(reg, i + 1)

\* the reference check value: the register starts with all bits set and
\* takes the bits of the message, each byte least significant bit first
RefCrc(data) == RegValue(RefBytes(0 .. 15, data), 0)

\* C23: modbus_crc16(data) raises nothing and returns the reference check
\* value of data, a number in 0 .. 0xFFFF: 0xFFFF for the empty string and
\* 0x4B37 for the check string '123456789'.
CrcIsReference ==
    dac_pc = "returned" /\ dac_call.op = "modbus_crc16" =>
        /\ dac_err = NoError
        /\ dac_ret \in 0 .. 65535
        /\ dac_ret = RefCrc(dac_call.data)
        /\ dac_call.data = <<>> => dac_ret = 65535
        /\ dac_call.data = CheckString => dac_ret = 19255

\* C23 witness: the check value of '123456789' has been computed
CrcOfCheckString ==
    /\ dac_pc = "returned" /\ dac_call.op = "modbus_crc16"
    /\ dac_call.data = CheckString
    /\ dac_ret = 19255
\* C24: set_volt(channel, volt) with channel in 1..6 and volt in 0..65535
\* raises nothing, reads nothing and writes exactly one frame of 8 bytes:
\* 0x01, 0x06, 0x00, the channel byte channel + 9 (0x0A .. 0x0F), the
\* millivolt value as two bytes, most significant first, and the check
\* value of these six bytes, least significant byte first.
SetVoltFrame ==
    /\ dac_pc = "returned" /\ dac_call.op = "set_volt"
    /\ dac_call.channel \in 1 .. 6 /\ dac_call.volt \in 0 .. 65535
    => /\ dac_err = NoError
       /\ dac_reads = 0
       /\ Len(dac_port) = 1
       /\ LET f == dac_port[1]
          IN  /\ Len(f) = 8
              /\ \A i \in 1 .. 8 : f[i] \in 0 .. 255
              /\ <<f[1], f[2], f[3]>> = <<1, 6, 0>>
              /\ f[4] = dac_call.channel + 9 /\ f[4] \in 10 .. 15
              /\ 256 * f[5] + f[6] = dac_call.volt
              /\ f[7] + 256 * f[8] = RefCrc(SubSeq(f, 1, 6))

\* C24 witness: set_volt(1, 1000) has written 01 06 00 0A 03 E8 A9 76
SetVoltOneVolt ==
    /\ dac_pc = "returned" /\ dac_call.op = "set_volt"
    /\ dac_call.channel = 1 /\ dac_call.volt = 1000
    /\ dac_port = << <<1, 6, 0, 10, 3, 232, 169, 118>> >>
\* C30: a message followed by its check value, least significant byte
\* first, has the check value 0; so has every frame that DAC.write or
\* DAC.set_volt hands to the serial port.
CrcResidueZero ==
    dac_pc = "returned" =>
        /\ dac_call.op = "modbus_crc16" =>
              modbus_crc16(dac_call.data \o ToBytesLittle(dac_ret)) = 0
        /\ \A i \in 1 .. Len(dac_port) : modbus_crc16(dac_port[i]) = 0

\* C30 witness: DAC.write(b'\xff\x00\x01') has put a frame of 7 bytes on the
\* wire, and the check value of the frame is 0
WrittenFrameChecksToZero ==
    /\ dac_pc = "returned" /\ dac_call.op = "write"
    /\ dac_call.data = <<255, 0, 1>>
    /\ Len(dac_port) = 1 /\ Len(dac_port[1]) = 7
    /\ SubSeq(dac_port[1], 1, 5) = <<1, 6, 255, 0, 1>>
    /\ modbus_crc16(dac_port[1]) = 0
\* the commands of a log that are written under a given name
WritesOf(l, name) == SelectSeq(l, LAMBDA e : e.t = "write" /\ e.cmd.name = name)

\* sum of flag i times 2 to the bit position i is paired with
Weighted(f, bits) ==
    f[1] * (2 ^ bits[1]) + f[2] * (2 ^ bits[2]) + f[3] * (2 ^ bits[3])
        + f[4] * (2 ^ bits[4]) + f[5] * (2 ^ bits[5]) + f[6] * (2 ^ bits[6])

\* C25: event_status_enable_select writes *ESE exactly once, with the sum
\* of 1 << bit over the flags given as true (operation_complete 0,
\* query_error 2, device_specific_error 3, execution_error 4, command_error
\* 5, power_on 7); service_request_enable_select writes *SRE exactly once
\* (error_queue 2, questionable_data_summary 3, message_available 4,
\* standard_event_summary 5, master_summary 6, standard_operation_summary 7).
RegisterSelectPacksFlags ==
    /\ last.op = "event_status_enable_select" =>
        /\ raised = NoError
        /\ WritesOf(log, "*SRE") = <<>>
        /\ WritesOf(log, "*ESE") =
             <<W(Cmd("*ESE", "",
                     IntStr(Weighted(last.num, <<0, 2, 3, 4, 5, 7>>))))>>
    /\ last.op = "service_request_enable_select" =>
        /\ raised = NoError
        /\ WritesOf(log, "*ESE") = <<>>
        /\ WritesOf(log, "*SRE") =
             <<W(Cmd("*SRE", "",
                     IntStr(Weighted(last.num, <<2, 3, 4, 5, 6, 7>>))))>>

\* C25 witness: event_status_enable_select(operation_complete=True,
\* query_error=True, command_error=True, power_on=True) has written *ESE 165
EventStatusSelected ==
    /\ last = Call("event_status_enable_select", <<>>,
                   [i \in 1 .. 6 |-> IF i \in {1, 2, 5, 6} THEN 1 ELSE 0])
    /\ WritesOf(log, "*ESE") = <<W(Cmd("*ESE", "", "165"))>>
\* C26: when a write() or query() of the Fluke45 returns, the output buffer
\* of the instrument is empty, and a query has returned its own value line.
FlukeBufferDrained ==
    alast.op \in {"write", "query"} =>
        /\ aerr = NoError
        /\ abuf = <<>>
        /\ alast.op = "query" => aret = alast.id
\* C27: every range or rate command an HP34401AD sends carries the function
\* most recently assigned through the function setter as its prefix, and
\* never the prefix 'None' of a function that was not assigned yet.
RangeRatePrefixIsFunction ==
    driver = "HP34401AD" =>
        \A i \in 1 .. Len(log) :
            log[i].cmd.name \in {":RANG", ":NPLC"} =>
                /\ log[i].cmd.idx = _function
                /\ log[i].cmd.idx /= NoneStr
\* the latest call of the RTO6 dialogue
ScopeLast == sc_hist[Len(sc_hist)]

\* C28: every command a sub-object with number n sends carries the suffix
\* n, and a call on sub-object n leaves the settings of every other
\* sub-unit, and the settings without a suffix, as they were.
SubObjectAddressesOwnUnit ==
    sc_hist /= <<>> /\ ScopeLast.str[1] /= "RTO6" =>
        LET n == NumStr(ScopeLast.num[1])
        IN  /\ \A i \in 1 .. Len(sc_log) :
                  sc_log[i].cmd /= WAI => sc_log[i].cmd.idx = n
            /\ \A k \in ScopeKeys :
                  k.unit /= n => sc_store[k] = sc_before[k]

\* C29: after horizontal_reference = r and then horizontal_position = p,
\* reading horizontal_reference returns r and reading horizontal_position
\* returns p.
HorizontalReferenceReadsBack ==
    \A i \in 1 .. Len(sc_hist) - 2 :
        /\ sc_hist[i].op = "set"
        /\ sc_hist[i].str = <<"RTO6", "horizontal_reference">>
        /\ sc_hist[i + 1].op = "set"
        /\ sc_hist[i + 1].str = <<"RTO6", "horizontal_position">>
        /\ sc_hist[i + 2].op = "get"
        /\ i + 2 = Len(sc_hist)
        => /\ sc_hist[i + 2].str[2] = "horizontal_reference" =>
                sc_ret = sc_hist[i].num[2]
           /\ sc_hist[i + 2].str[2] = "horizontal_position" =>
                sc_ret = sc_hist[i + 1].num[2]
====
